---- MODULE Spec2Model ----
(***************************************************************************)
(* Hebrew OCR extractor (App.jsx + utils/ocrUtils.js + columnOcrUtils.js). *)
(*                                                                         *)
(* The program runs on the browser's single-threaded event loop.  A task  *)
(* (a user event, a timer, an engine call settling) runs to completion,   *)
(* then the promise continuations it queued run in FIFO order (microQ)    *)
(* before the next task starts.                                            *)
(*                                                                         *)
(* Text values are sequences of Unicode code points.  The memory estimate *)
(* is an exact decimal <<num, exp>> standing for num / 10^exp, so that the *)
(* cleanup's multiplication by 0.7 is computed without rounding.           *)
(***************************************************************************)
EXTENDS Integers, Sequences, FiniteSets, TLC

\* ---------------------------------------------------------------- bounds
MaxPages == 4
MaxSessionPages == 2
MaxPendingCleanups == 1
MaxActions == 3
MaxSelectPages == 60
MaxTextLen == 4

\* ------------------------------------------------------ program constants
ParallelConcurrency == 3
BatchConcurrency == 2
ChunkedChunkSize == 5
ProgressiveChunkSize == 3
MemoryThresholdMB == 800
BytesPerPixel == 4
BytesPerMB == 1048576

Min(a, b) == IF a < b THEN a ELSE b

\* ------------------------------------------------------------------ text
NL == 10
SP == 32

\* "--- Page "
BannerHead == <<45, 45, 45, 32, 80, 97, 103, 101, 32>>
\* " ---\n"
BannerTail == <<32, 45, 45, 45, 10>>
\* "[Error processing page "
ErrPageHead == <<91, 69, 114, 114, 111, 114, 32, 112, 114, 111, 99, 101, 115, 115,
                 105, 110, 103, 32, 112, 97, 103, 101, 32>>
\* "[Error processing image: "
ErrImageHead == <<91, 69, 114, 114, 111, 114, 32, 112, 114, 111, 99, 101, 115, 115,
                  105, 110, 103, 32, 105, 109, 97, 103, 101, 58, 32>>
\* ": "
ColonSpace == <<58, 32>>
\* "]"
CloseBracket == <<93>>

\* String(n) for a non-negative integer: its decimal digits.
RECURSIVE NumToString(_)
NumToString(n) ==
  IF n < 10 THEN <<48 + n>> ELSE NumToString(n \div 10) \o <<48 + (n % 10)>>

\* JavaScript white space (String.prototype.trim and the regex class \s).
WhiteSpace ==
  {9, 10, 11, 12, 13, 32, 160, 5760, 8232, 8233, 8239, 8287, 12288, 65279}
    \cup (8192..8202)

RECURSIVE TrimStart(_)
TrimStart(s) ==
  IF s = <<>> THEN <<>>
  ELSE IF Head(s) \in WhiteSpace THEN TrimStart(Tail(s)) ELSE s

RECURSIVE TrimEnd(_)
TrimEnd(s) ==
  IF s = <<>> THEN <<>>
  ELSE IF s[Len(s)] \in WhiteSpace THEN TrimEnd(SubSeq(s, 1, Len(s) - 1)) ELSE s

Trim(s) == TrimEnd(TrimStart(s))

\* text.split('\n'): the pieces between line feeds (one piece more than feeds).
RECURSIVE SplitLines(_)
SplitLines(s) ==
  IF \A i \in 1..Len(s) : s[i] # NL THEN <<s>>
  ELSE LET k == CHOOSE i \in 1..Len(s) : s[i] = NL /\ \A j \in 1..(i - 1) : s[j] # NL
       IN <<SubSeq(s, 1, k - 1)>> \o SplitLines(SubSeq(s, k + 1, Len(s)))

\* s.split(/\s+/): the pieces between maximal runs of white space; a leading
\* or trailing run yields an empty first or last piece.
RECURSIVE SplitWhite(_)
SplitWhite(s) ==
  IF \A i \in 1..Len(s) : s[i] \notin WhiteSpace THEN <<s>>
  ELSE LET k == CHOOSE i \in 1..Len(s) :
                  s[i] \in WhiteSpace /\ \A j \in 1..(i - 1) : s[j] \notin WhiteSpace
       IN <<SubSeq(s, 1, k - 1)>> \o SplitWhite(TrimStart(SubSeq(s, k, Len(s))))

\* Array.prototype.join
RECURSIVE Join(_, _)
Join(parts, sep) ==
  IF parts = <<>> THEN <<>>
  ELSE IF Len(parts) = 1 THEN parts[1]
  ELSE parts[1] \o sep \o Join(Tail(parts), sep)

IsHebrewBlock(c) == c >= 1424 /\ c <= 1535
IsHebrewLetter(c) == c >= 1488 /\ c <= 1514
IsHebrewVowel(c) == (c >= 1456 /\ c <= 1469) \/ (c >= 1471 /\ c <= 1479)
IsHebrewPunctuation(c) == c \in {1470, 1472, 1475, 1478, 1523, 1524}
\* /[\s.,;:!?()"'-]/
IsCommonPunctuation(c) ==
  c \in WhiteSpace \/ c \in {46, 44, 59, 58, 33, 63, 40, 41, 34, 39, 45}

KeepChar(c) ==
  IsHebrewLetter(c) \/ IsHebrewVowel(c) \/ IsHebrewPunctuation(c)
    \/ IsCommonPunctuation(c)

\* A variant that strips only the first character that is not kept; C28
\* distinguishes it from CleanWord.
CleanWordOfFirstOnly(word) ==
  IF \A i \in 1..Len(word) : KeepChar(word[i]) THEN word
  ELSE LET k == CHOOSE i \in 1..Len(word) :
                  ~KeepChar(word[i]) /\ \A j \in 1..(i - 1) : KeepChar(word[j])
       IN SubSeq(word, 1, k - 1) \o SubSeq(word, k + 1, Len(word))

CleanWord(word) == SelectSeq(word, KeepChar)

HasHebrew(word) == \E i \in 1..Len(word) : IsHebrewBlock(word[i])
\* A variant that accepts any character of the Hebrew block; C29
\* distinguishes it from HasHebrewLetter.
HasHebrewBlockCharacter(word) == \E i \in 1..Len(word) : IsHebrewBlock(word[i])
HasHebrewLetter(word) == \E i \in 1..Len(word) : IsHebrewLetter(word[i])

\* The valid words of one line, in order.
RECURSIVE ValidWords(_)
ValidWords(words) ==
  IF words = <<>> THEN <<>>
  ELSE LET word == Head(words)
           cleanedWord == CleanWord(word)
           rest == ValidWords(Tail(words))
       IN IF Trim(word) = <<>> THEN rest
          ELSE IF ~HasHebrew(word) THEN rest
          ELSE IF Trim(cleanedWord) # <<>> /\ HasHebrewLetter(cleanedWord)
               THEN <<Trim(cleanedWord)>> \o rest
               ELSE rest

RECURSIVE CleanedLines(_)
CleanedLines(lines) ==
  IF lines = <<>> THEN <<>>
  ELSE LET validWords == ValidWords(SplitWhite(Trim(Head(lines))))
           rest == CleanedLines(Tail(lines))
       IN IF Len(validWords) > 0 THEN <<Join(validWords, <<SP>>)>> \o rest
          ELSE rest

validateHebrewText(text) ==
  IF text = <<>> THEN <<>>
  ELSE Trim(Join(CleanedLines(SplitLines(text)), <<NL>>))

\* ---------------------------------------------------------------- memory
\* A decimal <<num, exp>> is num / 10^exp; normal form has exp = 0 or num
\* not divisible by 10.
RECURSIVE Pow10(_)
Pow10(e) == IF e = 0 THEN 1 ELSE 10 * Pow10(e - 1)

RECURSIVE DecNorm(_)
DecNorm(d) ==
  IF d[2] > 0 /\ d[1] % 10 = 0 THEN DecNorm(<<d[1] \div 10, d[2] - 1>>) ELSE d

DecZero == <<0, 0>>
DecOfInt(n) == <<n, 0>>
DecAdd(d, n) == DecNorm(<<d[1] + n * Pow10(d[2]), d[2]>>)
DecSub(d, n) == DecNorm(<<d[1] - n * Pow10(d[2]), d[2]>>)
DecGreater(d, n) == d[1] > n * Pow10(d[2])
DecLessEq(d, n) == d[1] <= n * Pow10(d[2])
DecIsNegative(d) == d[1] < 0

\* prev * 0.7
DecayFactor(prev) == DecNorm(<<prev[1] * 7, prev[2] + 1>>)

\* estimateMemoryUsage: (width * height * 4) / (1024 * 1024), in MB.  The
\* canvases of the model have a whole number of MB.
estimateMemoryUsage(canvas) ==
  (canvas[1] * canvas[2] * BytesPerPixel) \div BytesPerMB

\* ---------------------------------------------------------------- inputs
\* MIME types a selected file can have: a PDF, an accepted image, a rejected
\* type.
PdfMime == "application/pdf"
supportedImageTypes ==
  <<"image/jpeg", "image/jpg", "image/png", "image/webp", "image/bmp",
    "image/tiff", "image/gif">>
SelectableMimes == {PdfMime, "image/png", "text/plain"}

\* file.size / (1024 * 1024) of the documents
FileSizesMB == {1, 500}

\* The strategy and column selects of the form.
StrategySettings == {"auto", "parallel", "batch", "chunked", "progressive"}
ColumnModes == {"auto", "force_columns", "single"}

\* Canvas sizes <<width, height>> after scaling: 16384 x 8192 px is 512 MB.
Canvases == {<<16384, 8192>>}

\* What the OCR engine returns for the pages of the documents: the raw text
\* "alef-bet * gimel-dalet" (with a noise word) for the odd pages and
\* "*x*\n alef-qamats ." for the even ones, and its confidence.
RawTextOfPage(p) ==
  IF p % 2 = 1 THEN <<1488, 1489, 32, 42, 32, 1490, 1491>>
  ELSE <<42, 120, 42, 10, 1488, 1464, 46>>
Confidences == {87}

\* m.progress of the messages the OCR engine sends to the logger while it is
\* "recognizing text": fractions of 1, reported in ascending order.
LoggerProgress == {<<1, 20>>, <<1, 2>>}

\* Date.now() at the settling of a unit minus Date.now() at its start, in ms:
\* every unit of the documents takes two seconds.
PageTimeMs == 2000

\* error.message of an engine failure.
EngineMessages == {<<69, 49>>}
\* error.message of the TypeError thrown by the first statement of a column
\* executor, which destructures its undefined parameter callbacks:
\* "Cannot destructure property 'storeIntermediateResults' of 'callbacks' as it is undefined."
StoreIntermediateResultsMessage ==
  <<67, 97, 110, 110, 111, 116, 32, 100, 101, 115, 116, 114, 117, 99, 116,
    117, 114, 101, 32, 112, 114, 111, 112, 101, 114, 116, 121, 32, 39, 115,
    116, 111, 114, 101, 73, 110, 116, 101, 114, 109, 101, 100, 105, 97, 116,
    101, 82, 101, 115, 117, 108, 116, 115, 39, 32, 111, 102, 32, 39, 99, 97,
    108, 108, 98, 97, 99, 107, 115, 39, 32, 97, 115, 32, 105, 116, 32, 105,
    115, 32, 117, 110, 100, 101, 102, 105, 110, 101, 100, 46>>
\* and of processHebrewSeferImage:
\* "Cannot destructure property 'setProcessingStats' of 'callbacks' as it is undefined."
SetProcessingStatsMessage ==
  <<67, 97, 110, 110, 111, 116, 32, 100, 101, 115, 116, 114, 117, 99, 116,
    117, 114, 101, 32, 112, 114, 111, 112, 101, 114, 116, 121, 32, 39, 115,
    101, 116, 80, 114, 111, 99, 101, 115, 115, 105, 110, 103, 83, 116, 97,
    116, 115, 39, 32, 111, 102, 32, 39, 99, 97, 108, 108, 98, 97, 99, 107,
    115, 39, 32, 97, 115, 32, 105, 116, 32, 105, 115, 32, 117, 110, 100, 101,
    102, 105, 110, 101, 100, 46>>
TypeErrorMessage(type) ==
  IF type = "image" THEN SetProcessingStatsMessage ELSE StoreIntermediateResultsMessage
\* error.message of the TypeError thrown by loadLibraries when the PDF.js
\* script has loaded without defining window.pdfjsLib:
\* "Cannot read properties of undefined (reading 'GlobalWorkerOptions')"
PdfjsLibUndefinedMessage ==
  <<67, 97, 110, 110, 111, 116, 32, 114, 101, 97, 100, 32, 112, 114, 111,
    112, 101, 114, 116, 105, 101, 115, 32, 111, 102, 32, 117, 110, 100,
    101, 102, 105, 110, 101, 100, 32, 40, 114, 101, 97, 100, 105, 110,
    103, 32, 39, 71, 108, 111, 98, 97, 108, 87, 111, 114, 107, 101, 114,
    79, 112, 116, 105, 111, 110, 115, 39, 41>>
\* String(undefined): img.onerror rejects with an Event, which has no message.
UndefinedMessage == <<117, 110, 100, 101, 102, 105, 110, 101, 100>>

\* "Failed to copy to clipboard"
FailedToCopyMessage ==
  <<70, 97, 105, 108, 101, 100, 32, 116, 111, 32, 99, 111, 112, 121, 32, 116,
    111, 32, 99, 108, 105, 112, 98, 111, 97, 114, 100>>
\* "Failed to copy text for Claude"
FailedToCopyForClaudeMessage ==
  <<70, 97, 105, 108, 101, 100, 32, 116, 111, 32, 99, 111, 112, 121, 32, 116,
    101, 120, 116, 32, 102, 111, 114, 32, 67, 108, 97, 117, 100, 101>>

\* "Please select a file"
SelectFileMessage ==
  <<80, 108, 101, 97, 115, 101, 32, 115, 101, 108, 101, 99, 116, 32, 97, 32,
    102, 105, 108, 101>>
\* "Please select a valid PDF file or image (JPG, PNG, WebP, BMP, TIFF, GIF)"
InvalidFileMessage ==
  <<80, 108, 101, 97, 115, 101, 32, 115, 101, 108, 101, 99, 116, 32, 97, 32,
    118, 97, 108, 105, 100, 32, 80, 68, 70, 32, 102, 105, 108, 101, 32, 111,
    114, 32, 105, 109, 97, 103, 101, 32, 40, 74, 80, 71, 44, 32, 80, 78, 71,
    44, 32, 87, 101, 98, 80, 44, 32, 66, 77, 80, 44, 32, 84, 73, 70, 70, 44,
    32, 71, 73, 70, 41>>

\* ----------------------------------------------------------------- state
VARIABLES
  \* React state of the component
  file,                 \* MIME type of the selected file, or "null"
  fileType,             \* "null" | "pdf" | "image"
  processing,
  progress,             \* a fraction <<num, den>> of percent
  error,
  extractedText,
  memoryUsage,          \* decimal, MB
  pageResults,          \* Map, as the sequence of its entries in insertion order
  intermediateResults,
  processingComplete,
  processingStats,      \* [totalPages, completedPages, averageTimePerPage,
                        \*  estimatedTimeRemaining], the times in seconds
  sessionData,          \* [filesProcessed, successfulExtractions, errors]
  actionsCount,
  \* the processFile invocation that is past its reset and before its finally
  pc,                   \* "idle" | "awaitTesseract" | "awaitPdfjs" | "loadLibraries" |
                        \* "scriptNeverLoads" | "arrayBuffer" | "getDocument" | "exec"
  job,                  \* values captured by its closure, and its locals
  \* the executor it awaits
  execPc,               \* "none" | "running" | "cleanup"
  results,              \* the executor's Map
  semaphore,            \* slot -> promise: 0 the initial resolved one, p page p's
  semIndex,
  startPage,
  unitPc,               \* page -> "idle" | "awaitSlot" | "getPage" | "render"
                        \*         | "recognize" | "imageLoad" | "settled",
                        \* for the pages 1..numPages of the document
  unitMem,              \* page -> memUsage of its canvas (0 before it exists)
  unitResult,           \* page -> the value its promise resolved with
  unitSlot,             \* page -> the semaphore index its promise was put in
  \* event loop
  microQ,               \* promise continuations waiting to run, FIFO
  cleanupTimers,        \* forceMemoryCleanup timers of finished invocations
  clipboardWrites,      \* navigator.clipboard.writeText calls not yet settled,
                        \* of handleCopyToClipboard and of handleCopyForClaude
  \* the user
  uncountedActions,     \* what the user did that actionsCount does not count
  loadedScripts,        \* the engines defined on window: "Tesseract", "pdfjsLib"
  \* a function of the utility modules called on its own
  call                  \* [fn, its arguments, result]; fn = "none" before a call

reactVars ==
  <<file, fileType, processing, progress, error, extractedText, memoryUsage,
    pageResults, intermediateResults, processingComplete, processingStats,
    actionsCount, sessionData>>
execVars ==
  <<execPc, results, semaphore, semIndex, startPage, unitPc, unitMem,
    unitResult, unitSlot>>
vars ==
  <<reactVars, pc, job, execVars, microQ, cleanupTimers, clipboardWrites,
    uncountedActions, loadedScripts, call>>

\* ------------------------------------------------------------------ Maps
\* A Map is the sequence of its entries [key, value] in insertion order.
EmptyMap == <<>>
MapKeys(m) == [i \in 1..Len(m) |-> m[i].key]
MapHas(m, k) == \E i \in 1..Len(m) : m[i].key = k
MapGet(m, k) == m[CHOOSE i \in 1..Len(m) : m[i].key = k].value
\* A variant that keeps only the entry it is given; C12 distinguishes it
\* from MapSet.
MapOfLastEntry(m, k, v) == <<[key |-> k, value |-> v]>>
\* Map.prototype.set: an existing key keeps its place, a new one goes last.
MapSet(m, k, v) ==
  IF MapHas(m, k)
  THEN [i \in 1..Len(m) |-> IF m[i].key = k THEN [key |-> k, value |-> v] ELSE m[i]]
  ELSE Append(m, [key |-> k, value |-> v])

RECURSIVE MapSetAll(_, _)
MapSetAll(m, vs) ==
  IF vs = <<>> THEN m ELSE MapSetAll(MapSet(m, Head(vs).pageNum, Head(vs)), Tail(vs))

\* ------------------------------------------------------------- fractions
RECURSIVE GCD(_, _)
GCD(a, b) == IF b = 0 THEN a ELSE GCD(b, a % b)
Frac(n, d) == LET g == GCD(n, d) IN <<n \div g, d \div g>>
FracOfInt(n) == <<n, 1>>
FracLessEq(a, b) == a[1] * b[2] <= b[1] * a[2]

NoSessionData == [filesProcessed |-> 0, successfulExtractions |-> 0, errors |-> 0]
NoStats ==
  [totalPages |-> 0, completedPages |-> 0, averageTimePerPage |-> 0,
   estimatedTimeRemaining |-> 0]
NoResult == [pageNum |-> 0, text |-> <<>>, confidence |-> 0]
NoCall == [fn |-> "none"]
NoWrites == [copy |-> 0, claude |-> 0]
NoJob ==
  [fileType |-> "null", columnMode |-> "auto", processingStrategy |-> "auto",
   memoryUsage |-> DecZero, closureTotalPages |-> 0, numPages |-> 0,
   strategy |-> "none",
   executor |-> "none",
   maxConcurrency |-> 0, chunkSize |-> 0]

ExecIdle ==
  /\ execPc' = "none"
  /\ results' = EmptyMap
  /\ semaphore' = <<>>
  /\ semIndex' = 0
  /\ startPage' = 0
  /\ unitPc' = <<>>
  /\ unitMem' = <<>>
  /\ unitResult' = <<>>
  /\ unitSlot' = <<>>

Init ==
  /\ call = NoCall
  /\ file = "null"
  /\ fileType = "null"
  /\ processing = FALSE
  /\ progress = FracOfInt(0)
  /\ error = <<>>
  /\ extractedText = <<>>
  /\ memoryUsage = DecZero
  /\ pageResults = EmptyMap
  /\ intermediateResults = EmptyMap
  /\ processingComplete = FALSE
  /\ processingStats = NoStats
  /\ actionsCount = 0
  /\ sessionData = NoSessionData
  /\ pc = "idle"
  /\ job = NoJob
  /\ execPc = "none"
  /\ results = EmptyMap
  /\ semaphore = <<>>
  /\ semIndex = 0
  /\ startPage = 0
  /\ unitPc = <<>>
  /\ unitMem = <<>>
  /\ unitResult = <<>>
  /\ unitSlot = <<>>
  /\ microQ = <<>>
  /\ cleanupTimers = 0
  /\ clipboardWrites = NoWrites
  /\ uncountedActions = 0
  /\ loadedScripts = {}

\* A task starts only when no promise continuation is waiting.
TaskMayStart == microQ = <<>>

\* The user acts MaxActions times: the clicks counted in actionsCount, those
\* whose clipboard write is pending, and what the program does not count, the
\* selections through the file input and the clicks of Copy for Claude whose
\* write was rejected.
PendingWrites == clipboardWrites.copy + clipboardWrites.claude
UserMayAct == actionsCount + PendingWrites + uncountedActions < MaxActions

\* --------------------------------------------------------- file selection
IsSupportedImage(mime) ==
  \E i \in 1..Len(supportedImageTypes) : supportedImageTypes[i] = mime

\* A variant of the rejection that also forgets the selected file; C18
\* distinguishes it from RejectFile.
RejectAndForgetFile(message) ==
  /\ error' = message
  /\ file' = "null"
  /\ UNCHANGED <<fileType, extractedText, pageResults,
                 intermediateResults, processingComplete>>

\* The two rejecting branches of validateAndSetFile: setError(message) and
\* return false; no other setter is called.
RejectFile(message) ==
  /\ error' = message
  /\ UNCHANGED <<file, fileType, extractedText, pageResults,
                 intermediateResults, processingComplete>>

\* validateAndSetFile(selectedFile, callbacks): the setters it calls.
validateAndSetFile(selectedFile) ==
  /\ TaskMayStart
  /\ IF selectedFile = "null"
     THEN RejectFile(SelectFileMessage)
     ELSE LET isPdf == selectedFile = PdfMime
              isImage == IsSupportedImage(selectedFile)
          IN IF isPdf \/ isImage
             THEN /\ file' = selectedFile
                  /\ fileType' = IF isPdf THEN "pdf" ELSE "image"
                  /\ error' = <<>>
                  /\ extractedText' = <<>>
                  /\ pageResults' = EmptyMap
                  /\ intermediateResults' = EmptyMap
                  /\ processingComplete' = FALSE
             ELSE RejectFile(InvalidFileMessage)
  /\ UNCHANGED <<processing, progress, memoryUsage, processingStats,
                 call, clipboardWrites, sessionData, pc, job, execVars, microQ,
                 cleanupTimers>>

\* The return value of validateAndSetFile.
IsPdfOrImage(selectedFile) ==
  selectedFile = PdfMime \/ IsSupportedImage(selectedFile)

\* onChange of the file input: event.target.files[0] is undefined when the
\* dialog is closed without a file.  The selection is not counted; the user
\* makes none after the last counted action.
handleFileUpload ==
  \E selectedFile \in SelectableMimes \cup {"null"} :
    /\ UserMayAct
    /\ validateAndSetFile(selectedFile)
    /\ uncountedActions' = uncountedActions + 1
    /\ UNCHANGED loadedScripts
    /\ UNCHANGED actionsCount

\* onFileSelect of the drop zone, called with files[0] of a drop that holds
\* a file: a successful selection is counted as a user action.
handleFileSelect ==
  \E selectedFile \in SelectableMimes :
    /\ UserMayAct
    /\ validateAndSetFile(selectedFile)
    /\ actionsCount' = IF IsPdfOrImage(selectedFile)
                       THEN actionsCount + 1 ELSE actionsCount
    /\ uncountedActions' = IF IsPdfOrImage(selectedFile)
                           THEN uncountedActions ELSE uncountedActions + 1
    /\ UNCHANGED loadedScripts

\* ------------------------------------------------------------ processFile
\* A variant whose thresholds are exclusive; C14 distinguishes it from
\* selectProcessingStrategy.
selectWithExclusiveThresholds(processingStrategy, pageCount, fileSizeMB) ==
  IF processingStrategy # "auto" THEN processingStrategy
  ELSE IF pageCount < 5 THEN "parallel"
  ELSE IF pageCount < 15 THEN "batch"
  ELSE IF pageCount < 50 THEN "chunked"
  ELSE "progressive"
\* A variant that overrides the mode "batch" for large documents; C15
\* distinguishes it from selectProcessingStrategy.
selectOverridingManualMode(processingStrategy, pageCount, fileSizeMB) ==
  IF processingStrategy # "auto" /\ ~(processingStrategy = "batch" /\ pageCount > 50)
  THEN processingStrategy
  ELSE IF pageCount <= 5 THEN "parallel"
  ELSE IF pageCount <= 15 THEN "batch"
  ELSE IF pageCount <= 50 THEN "chunked"
  ELSE "progressive"
selectProcessingStrategy(processingStrategy, pageCount, fileSizeMB) ==
  IF processingStrategy # "auto" THEN processingStrategy
  ELSE IF pageCount <= 5 THEN "parallel"
  ELSE IF pageCount <= 15 THEN "batch"
  ELSE IF pageCount <= 50 THEN "chunked"
  ELSE "progressive"

\* The switch of processFile: which executor runs, with which parameter.
ExecutorOf(strategy) ==
  IF strategy \in {"parallel", "batch"} THEN "parallel" ELSE "chunked"
MaxConcurrencyOf(strategy) ==
  IF strategy = "parallel" THEN ParallelConcurrency
  ELSE IF strategy = "batch" THEN BatchConcurrency ELSE 0
ChunkSizeOf(strategy) ==
  IF strategy = "progressive" THEN ProgressiveChunkSize
  ELSE IF strategy \in {"parallel", "batch"} THEN 0 ELSE ChunkedChunkSize

\* App.jsx passes (pdf, n, columnMode, callbacks) to the column executors and
\* (file, columnMode, callbacks) to processHebrewSeferImage, whose parameter
\* lists are (.., columnMode, scriptMode, callbacks): callbacks is undefined
\* there, and the destructuring in their first statement throws.
CallbacksUndefined(columnMode) == columnMode \in {"auto", "force_columns"}

\* The scripts loadLibraries(fileType) needs: it appends the script of each
\* one that window does not define yet, Tesseract first.
NeededScripts(type) ==
  IF type = "pdf" THEN {"Tesseract", "pdfjsLib"} ELSE {"Tesseract"}

\* Where loadLibraries(type) stops when it finds the scripts `loaded`: at the
\* await of the onload of the Tesseract script, at that of the PDF.js script,
\* or nowhere, and then it returns in the task that called it.
LoadLibrariesPc(type, loaded) ==
  IF "Tesseract" \notin loaded THEN "awaitTesseract"
  ELSE IF "pdfjsLib" \in NeededScripts(type) \ loaded THEN "awaitPdfjs"
  ELSE "loadLibraries"

\* The button is rendered when a file is selected and disabled while
\* processing.  The closure holds the state of the render it was made in.
\* The handler runs processFile up to `await loadLibraries(fileType)`, and
\* loadLibraries up to its first await; when no script is missing, the
\* continuation of processFile is queued at once.
ProcessFileClick(strategySetting, columnModeSetting) ==
  /\ TaskMayStart
  /\ file # "null"
  /\ ~processing
  /\ cleanupTimers <= MaxPendingCleanups
  /\ UserMayAct
  /\ actionsCount' = actionsCount + 1
  /\ processing' = TRUE
  /\ progress' = FracOfInt(0)
  /\ error' = <<>>
  /\ extractedText' = <<>>
  /\ memoryUsage' = DecZero
  /\ pageResults' = EmptyMap
  /\ intermediateResults' = EmptyMap
  /\ processingComplete' = FALSE
  /\ pc' = LoadLibrariesPc(fileType, loadedScripts)
  /\ microQ' = IF LoadLibrariesPc(fileType, loadedScripts) = "loadLibraries"
               THEN Append(microQ, <<"loadLibraries", 0>>) ELSE microQ
  /\ job' = [NoJob EXCEPT !.fileType = fileType,
                          !.columnMode = columnModeSetting,
                          !.processingStrategy = strategySetting,
                          !.memoryUsage = memoryUsage,
                          !.closureTotalPages = processingStats.totalPages]
  /\ UNCHANGED <<call, clipboardWrites, uncountedActions, loadedScripts, file, fileType, processingStats, sessionData, execVars,
                 cleanupTimers>>

\* updateProgress(completedPages, totalPages, setProgress)
updateProgress(completedPages, totalPages, prevProgress) ==
  IF totalPages = 0 THEN prevProgress
  ELSE LET progressPercentage == Frac(completedPages * 100, totalPages)
       IN IF FracLessEq(FracOfInt(100), progressPercentage)
          THEN FracOfInt(100) ELSE progressPercentage

\* updateProcessingStats(pageNum, true): the page's start time was recorded
\* when the unit began, so the state update is always queued.
\* A variant that counts from the completedPages of the render the job was
\* started in (0) instead of the latest state; C35 distinguishes it from
\* StatsComplete.
StatsCompleteFromClosure(stats) ==
  [stats EXCEPT !.completedPages = 0 + 1,
                !.averageTimePerPage = PageTimeMs \div 1000,
                !.estimatedTimeRemaining =
                   (PageTimeMs * (job.closureTotalPages - (0 + 1))) \div 1000]
\* avgTime is the mean of the page times.  remainingPages is computed from
\* the processingStats of the render in which the updateProcessingStats of
\* the job's callbacks was made: the totalPages the state had when the job
\* was started, and the completedPages 0 of the render that set it.
StatsComplete(stats) ==
  LET avgTime == PageTimeMs
      remainingPages == job.closureTotalPages - (0 + 1)
      estimatedRemaining == (avgTime * remainingPages) \div 1000
  IN [stats EXCEPT !.completedPages = stats.completedPages + 1,
                   !.averageTimePerPage = avgTime \div 1000,
                   !.estimatedTimeRemaining = estimatedRemaining]

\* handleError(err, context)
handleError(message) ==
  /\ error' = message
  /\ sessionData' = [sessionData EXCEPT !.errors = @ + 1]

\* A variant without the finally block, which leaves the processing flag
\* set; C38 distinguishes it from CatchFinally.
CatchWithoutFinally(message) ==
  /\ handleError(message)
  /\ processing' = TRUE
  /\ cleanupTimers' = cleanupTimers
  /\ pc' = "idle"
  /\ job' = NoJob
  /\ ExecIdle
  /\ UNCHANGED <<call, clipboardWrites, uncountedActions>>

\* catch + finally of processFile
CatchFinally(message) ==
  /\ handleError(message)
  /\ processing' = FALSE
  /\ cleanupTimers' = cleanupTimers + 1
  /\ pc' = "idle"
  /\ job' = NoJob
  /\ ExecIdle
  /\ UNCHANGED <<call, clipboardWrites, uncountedActions>>

\* the first statements of processImageFile, up to its first await
ImageFileCall ==
  /\ processingStats' = [NoStats EXCEPT !.totalPages = 1]
  /\ execPc' = "running"
  /\ results' = EmptyMap
  /\ unitPc' = [p \in 1..1 |-> "imageLoad"]
  /\ unitMem' = [p \in 1..1 |-> 0]
  /\ unitResult' = [p \in 1..1 |-> NoResult]
  /\ unitSlot' = [p \in 1..1 |-> 0]
  /\ UNCHANGED <<semaphore, semIndex, startPage>>

\* loadLibraries awaits the onload of each script it appends and sets no
\* onerror: when a script cannot be loaded, the promise it awaits never
\* settles and processFile stays at `await loadLibraries(fileType)`.
ScriptNeverLoads ==
  /\ TaskMayStart
  /\ pc \in {"awaitTesseract", "awaitPdfjs"}
  /\ pc' = "scriptNeverLoads"
  /\ UNCHANGED <<reactVars, job, execVars, microQ, cleanupTimers, call,
                 clipboardWrites, uncountedActions, loadedScripts>>

\* processFile after `await loadLibraries(fileType)`: the body of the try
\* block up to the next await.  q is the microtask queue it leaves.
AfterLoadLibraries(q) ==
  IF job.fileType = "image"
  THEN /\ progress' = FracOfInt(10)
       /\ pc' = "exec"
       /\ IF CallbacksUndefined(job.columnMode)
          THEN /\ microQ' = Append(q, <<"execThrow", 0>>)
               /\ job' = job
               /\ UNCHANGED <<processingStats, execVars>>
          ELSE /\ ImageFileCall
               /\ job' = [job EXCEPT !.numPages = 1, !.executor = "image"]
               /\ microQ' = q
       /\ UNCHANGED <<call, clipboardWrites, uncountedActions, sessionData, actionsCount, file, fileType, processing, error, extractedText,
                      memoryUsage, pageResults, intermediateResults,
                      processingComplete, cleanupTimers>>
  ELSE /\ pc' = "arrayBuffer"
       /\ microQ' = q
       /\ UNCHANGED <<reactVars, job, execVars, cleanupTimers, call, clipboardWrites, uncountedActions>>

\* The onload of the Tesseract script: window.Tesseract is defined.  For a
\* PDF without window.pdfjsLib, loadLibraries appends the script of PDF.js
\* and awaits its onload; otherwise it returns and processFile continues.
TesseractOnload ==
  /\ TaskMayStart
  /\ pc = "awaitTesseract"
  /\ loadedScripts' = loadedScripts \cup {"Tesseract"}
  /\ IF LoadLibrariesPc(job.fileType, loadedScripts') = "awaitPdfjs"
     THEN /\ pc' = "awaitPdfjs"
          /\ UNCHANGED <<reactVars, job, execVars, microQ, cleanupTimers, call,
                         clipboardWrites, uncountedActions>>
     ELSE AfterLoadLibraries(microQ)

\* The onload of the PDF.js script.  When the script has defined
\* window.pdfjsLib, loadLibraries sets its workerSrc and returns; when it has
\* not, the assignment throws a TypeError and loadLibraries rejects, which
\* processFile catches.
PdfjsOnload(ok) ==
  /\ TaskMayStart
  /\ pc = "awaitPdfjs"
  /\ IF ok
     THEN /\ loadedScripts' = loadedScripts \cup {"pdfjsLib"}
          /\ AfterLoadLibraries(microQ)
     ELSE /\ CatchFinally(PdfjsLibUndefinedMessage)
          /\ UNCHANGED <<loadedScripts, actionsCount, file, fileType, progress, extractedText, memoryUsage,
                         pageResults, intermediateResults, processingComplete,
                         processingStats, microQ>>

\* loadLibraries found no script missing: the continuation of processFile
\* that the click queued runs.
LoadLibrariesReturns ==
  /\ microQ # <<>>
  /\ Head(microQ) = <<"loadLibraries", 0>>
  /\ AfterLoadLibraries(Tail(microQ))
  /\ UNCHANGED loadedScripts

\* file.arrayBuffer() settles
ArrayBufferSettle(ok) ==
  /\ TaskMayStart
  /\ pc = "arrayBuffer"
  /\ IF ok
     THEN /\ pc' = "getDocument"
          /\ UNCHANGED <<reactVars, job, execVars, microQ, cleanupTimers, call, clipboardWrites, uncountedActions, loadedScripts>>
     ELSE /\ CatchFinally(CHOOSE m \in EngineMessages : TRUE)
          /\ UNCHANGED <<loadedScripts, actionsCount, file, fileType, progress, extractedText, memoryUsage,
                         pageResults, intermediateResults, processingComplete,
                         processingStats, microQ>>

\* -------------------------------------------------------------- executors
\* processParallel up to `await Promise.all`: every processPage(i) runs to its
\* `await semaphore[semIndex]`.  The loop is synchronous, so each of them
\* awaits an initial, already resolved slot promise and its continuation is
\* queued at once, in page order.
RECURSIVE ResumeAll(_, _)
ResumeAll(i, numPages) ==
  IF i > numPages THEN <<>> ELSE <<(<<"resume", i>>)>> \o ResumeAll(i + 1, numPages)

\* processChunked: the pages of the chunk that starts at page sp
\* A variant that ends every chunk at the last page of the document; C4
\* distinguishes it from EndPage.
EndPageOfDocument(sp, chunkSize, totalPages) == totalPages
EndPage(sp, chunkSize, totalPages) == Min(sp + chunkSize - 1, totalPages)
ChunkPages(sp, chunkSize, totalPages) == sp..EndPage(sp, chunkSize, totalPages)

\* `if (memoryUsage > 800)`, on the memoryUsage of the callbacks object
ChunkGate(j) == DecGreater(j.memoryUsage, MemoryThresholdMB)

\* processSinglePage up to `await pdf.getPage`, for every page of the chunk
LaunchChunk(sp, j, upc) ==
  [p \in 1..j.numPages |-> IF p \in ChunkPages(sp, j.chunkSize, j.numPages)
                           THEN "getPage" ELSE upc[p]]

\* pdfjsLib.getDocument settles: the rest of the try block up to the await of
\* the executor, with the executor's synchronous first part.
GetDocumentSettle(ok, numPages, fileSizeMB) ==
  /\ TaskMayStart
  /\ pc = "getDocument"
  /\ IF ~ok
     THEN /\ CatchFinally(CHOOSE m \in EngineMessages : TRUE)
          /\ UNCHANGED <<loadedScripts, actionsCount, file, fileType, progress, extractedText, memoryUsage,
                         pageResults, intermediateResults, processingComplete,
                         processingStats, microQ>>
     ELSE LET strategy == selectProcessingStrategy(job.processingStrategy, numPages,
                                                  fileSizeMB)
              j == [job EXCEPT !.strategy = strategy,
                               !.numPages = numPages,
                               !.executor = ExecutorOf(strategy),
                               !.maxConcurrency = MaxConcurrencyOf(strategy),
                               !.chunkSize = ChunkSizeOf(strategy)]
          IN /\ processingStats' = [NoStats EXCEPT !.totalPages = numPages]
             /\ progress' = FracOfInt(5)
             /\ pc' = "exec"
             /\ IF ~CallbacksUndefined(job.columnMode)
                THEN /\ unitMem' = [p \in 1..numPages |-> 0]
                     /\ unitResult' = [p \in 1..numPages |-> NoResult]
                     /\ unitSlot' = [p \in 1..numPages |-> 0]
                ELSE TRUE
             /\ IF CallbacksUndefined(job.columnMode)
                THEN /\ job' = [job EXCEPT !.strategy = strategy]
                     /\ microQ' = Append(microQ, <<"execThrow", 0>>)
                     /\ UNCHANGED execVars
                ELSE IF j.executor = "parallel"
                THEN /\ job' = j
                     /\ execPc' = "running"
                     /\ results' = EmptyMap
                     /\ semaphore' = [s \in 1..j.maxConcurrency |-> 0]
                     /\ semIndex' = 0
                     /\ unitPc' = [p \in 1..numPages |-> "awaitSlot"]
                     /\ microQ' = microQ \o ResumeAll(1, numPages)
                     /\ UNCHANGED startPage
                ELSE /\ job' = j
                     /\ results' = EmptyMap
                     /\ startPage' = 1
                     /\ IF ChunkGate(j)
                        THEN /\ execPc' = "cleanup"
                             /\ unitPc' = [p \in 1..numPages |-> "idle"]
                        ELSE /\ execPc' = "running"
                             /\ unitPc' = LaunchChunk(1, j, [p \in 1..numPages |-> "idle"])
                     /\ UNCHANGED <<semaphore, semIndex, microQ>>
             /\ UNCHANGED <<call, clipboardWrites, uncountedActions, loadedScripts, sessionData, actionsCount, file, fileType, processing, error, extractedText,
                            memoryUsage, pageResults, intermediateResults,
                            processingComplete, cleanupTimers>>

\* processPage(p) after `await semaphore[semIndex]`: it puts the promise of
\* processSinglePage(p) in the slot semIndex names now, and awaits it.
ResumeUnit(p) ==
  /\ microQ # <<>>
  /\ Head(microQ) = <<"resume", p>>
  /\ microQ' = Tail(microQ)
  /\ semaphore' = [semaphore EXCEPT ![semIndex + 1] = p]
  /\ unitSlot' = [unitSlot EXCEPT ![p] = semIndex]
  /\ unitPc' = [unitPc EXCEPT ![p] = "getPage"]
  /\ UNCHANGED <<reactVars, pc, job, execPc, results, semIndex, startPage,
                 unitMem, unitResult, cleanupTimers, call, clipboardWrites, uncountedActions, loadedScripts>>

\* ------------------------------------------------------------- page units
\* The value of the catch block of processSinglePage.
\* A variant that keeps a confidence for the failed page; C7 distinguishes it
\* from ErrorResult.
ErrorResultWithConfidence(pageNum, message) ==
  [pageNum |-> pageNum,
   text |-> ErrPageHead \o NumToString(pageNum) \o ColonSpace \o message
              \o CloseBracket,
   confidence |-> 1]
ErrorResult(pageNum, message) ==
  [pageNum |-> pageNum,
   text |-> ErrPageHead \o NumToString(pageNum) \o ColonSpace \o message
              \o CloseBracket,
   confidence |-> 0]

\* The value of the catch block of processImageFile.
ImageErrorResult(message) ==
  [pageNum |-> 1,
   text |-> ErrImageHead \o message \o CloseBracket,
   confidence |-> 0]

OkResult(pageNum, rawText, confidence) ==
  [pageNum |-> pageNum, text |-> validateHebrewText(rawText),
   confidence |-> confidence]

\* A variant in which a chunk counts as settled when any of its units has;
\* C19 distinguishes it from ChunkSettled.
ChunkAnySettled(upc) ==
  \E q \in ChunkPages(startPage, job.chunkSize, job.numPages) : upc[q] = "settled"

\* Promise.all of a chunk: fulfilled once each of its promises is.
ChunkSettled(upc) ==
  \A q \in ChunkPages(startPage, job.chunkSize, job.numPages) : upc[q] = "settled"

\* The promise of unit p resolves with `result`: what awaits it is queued.
UnitSettles(p, result) ==
  /\ unitResult' = [unitResult EXCEPT ![p] = result]
  /\ unitPc' = [unitPc EXCEPT ![p] = "settled"]
  /\ microQ' =
       IF job.executor = "parallel" THEN Append(microQ, <<"store", p>>)
       ELSE IF job.executor = "image" THEN Append(microQ, <<"afterExec", 0>>)
       ELSE IF ChunkSettled([unitPc EXCEPT ![p] = "settled"])
            THEN Append(microQ, <<"chunkDone", 0>>)
            ELSE microQ
  /\ results' =
       IF job.executor = "image" THEN MapSet(EmptyMap, 1, result) ELSE results

\* updateProcessingStats(pageNum, true) with its updateProgress
StatsAndProgressComplete ==
  /\ processingStats' = StatsComplete(processingStats)
  /\ progress' = updateProgress(processingStats.completedPages + 1,
                                processingStats.totalPages, progress)

\* catch block of processSinglePage
UnitCatch(p, message) ==
  /\ StatsAndProgressComplete
  /\ UnitSettles(p, ErrorResult(p, message))

\* pdf.getPage(p) settles
GetPageSettle(p, ok, canvas, message) ==
  /\ TaskMayStart
  /\ unitPc[p] = "getPage"
  /\ IF ok
     THEN /\ unitMem' = [unitMem EXCEPT ![p] = estimateMemoryUsage(canvas)]
          /\ memoryUsage' = DecAdd(memoryUsage, estimateMemoryUsage(canvas))
          /\ unitPc' = [unitPc EXCEPT ![p] = "render"]
          /\ UNCHANGED <<processingStats, progress, unitResult, microQ, results>>
     ELSE /\ UnitCatch(p, message)
          /\ UNCHANGED <<memoryUsage, unitMem>>
  /\ UNCHANGED <<call, clipboardWrites, uncountedActions, loadedScripts, sessionData, actionsCount, file, fileType, processing, error, extractedText, pageResults,
                 intermediateResults, processingComplete, pc, job, execPc,
                 semaphore, semIndex, startPage, unitSlot, cleanupTimers>>

\* page.render(...).promise settles
RenderSettle(p, ok, message) ==
  /\ TaskMayStart
  /\ unitPc[p] = "render"
  /\ IF ok
     THEN /\ unitPc' = [unitPc EXCEPT ![p] = "recognize"]
          /\ UNCHANGED <<processingStats, progress, unitResult, microQ, results>>
     ELSE UnitCatch(p, message)
  /\ UNCHANGED <<call, clipboardWrites, uncountedActions, loadedScripts, sessionData, actionsCount, file, fileType, processing, error, extractedText, memoryUsage,
                 pageResults, intermediateResults, processingComplete, pc, job,
                 execPc, semaphore, semIndex, startPage, unitMem, unitSlot,
                 cleanupTimers>>

\* Tesseract.recognize settles, in processSinglePage or in processImageFile
RecognizeSettle(p, ok, rawText, confidence, message) ==
  /\ TaskMayStart
  /\ unitPc[p] = "recognize"
  /\ IF job.executor = "image"
     THEN IF ok
          THEN /\ memoryUsage' = DecZero
               /\ StatsAndProgressComplete
               /\ UnitSettles(p, OkResult(1, rawText, confidence))
          ELSE /\ StatsAndProgressComplete
               /\ UnitSettles(p, ImageErrorResult(message))
               /\ UNCHANGED memoryUsage
     ELSE IF ok
          THEN /\ memoryUsage' = DecSub(memoryUsage, unitMem[p])
               /\ StatsAndProgressComplete
               /\ UnitSettles(p, OkResult(p, rawText, confidence))
          ELSE /\ UnitCatch(p, message)
               /\ UNCHANGED memoryUsage
  /\ UNCHANGED <<call, clipboardWrites, uncountedActions, loadedScripts, sessionData, actionsCount, file, fileType, processing, error, extractedText, pageResults,
                 intermediateResults, processingComplete, pc, job, execPc,
                 semaphore, semIndex, startPage, unitMem, unitSlot,
                 cleanupTimers>>

\* the logger of processImageFile receives a message of the engine:
\* setProgress(m.progress * 90)
ImageRecognizeLogger(mProgress) ==
  /\ TaskMayStart
  /\ job.executor = "image"
  /\ 1 \in DOMAIN unitPc
  /\ unitPc[1] = "recognize"
  /\ LET reported == Frac(mProgress[1] * 90, mProgress[2])
     IN /\ progress = FracOfInt(10) \/ ~FracLessEq(reported, progress)
        /\ progress' = reported
  /\ UNCHANGED <<call, clipboardWrites, uncountedActions, loadedScripts, sessionData, actionsCount, file, fileType, processing, error,
                 extractedText, memoryUsage, pageResults, intermediateResults,
                 processingComplete, processingStats, pc, job, execVars, microQ,
                 cleanupTimers>>

\* loadImageToCanvas settles, in processImageFile
ImageLoadSettle(ok, canvas) ==
  /\ TaskMayStart
  /\ 1 \in DOMAIN unitPc
  /\ unitPc[1] = "imageLoad"
  /\ IF ok
     THEN /\ unitMem' = [unitMem EXCEPT ![1] = estimateMemoryUsage(canvas)]
          /\ memoryUsage' = DecOfInt(estimateMemoryUsage(canvas))
          /\ unitPc' = [unitPc EXCEPT ![1] = "recognize"]
          /\ UNCHANGED <<processingStats, progress, unitResult, microQ, results>>
     ELSE /\ StatsAndProgressComplete
          /\ UnitSettles(1, ImageErrorResult(UndefinedMessage))
          /\ UNCHANGED <<memoryUsage, unitMem>>
  /\ UNCHANGED <<call, clipboardWrites, uncountedActions, loadedScripts, sessionData, actionsCount, file, fileType, processing, error, extractedText, pageResults,
                 intermediateResults, processingComplete, pc, job, execPc,
                 semaphore, semIndex, startPage, unitSlot, cleanupTimers>>

\* ---------------------------------------------------- executor continuations
\* Promise.all(promises) of processParallel: every processPage has returned.
\* A variant that is content with one stored result; C6 distinguishes it
\* from AllStored.
AnyStored(m, numPages) == \E q \in 1..numPages : MapHas(m, q)
AllStored(m, numPages) == \A q \in 1..numPages : MapHas(m, q)

\* processPage(p) after `await semaphore[semIndex]` of its own unit
StoreResult(p) ==
  /\ microQ # <<>>
  /\ Head(microQ) = <<"store", p>>
  /\ LET newResults == MapSet(results, p, unitResult[p])
     IN /\ results' = newResults
        /\ intermediateResults' = newResults
        /\ pageResults' = newResults
        /\ microQ' = IF AllStored(newResults, job.numPages)
                     THEN Append(Tail(microQ), <<"afterExec", 0>>)
                     ELSE Tail(microQ)
  /\ semIndex' = (semIndex + 1) % job.maxConcurrency
  /\ UNCHANGED <<call, clipboardWrites, uncountedActions, loadedScripts, sessionData, actionsCount, file, fileType, processing, progress, error, extractedText,
                 memoryUsage, processingComplete, processingStats, pc, job,
                 execPc, semaphore, startPage, unitPc, unitMem, unitResult,
                 unitSlot, cleanupTimers>>

\* chunkResults of Promise.all(chunkPromises), in the order of the promises
RECURSIVE ChunkResults(_, _)
ChunkResults(p, endPage) ==
  IF p > endPage THEN <<>> ELSE <<unitResult[p]>> \o ChunkResults(p + 1, endPage)

\* processChunked after `await Promise.all(chunkPromises)`: the results are
\* merged and published, and the loop goes on to the next chunk or returns.
ChunkDone ==
  /\ microQ # <<>>
  /\ Head(microQ) = <<"chunkDone", 0>>
  /\ LET endPage == EndPage(startPage, job.chunkSize, job.numPages)
         newResults == MapSetAll(results, ChunkResults(startPage, endPage))
         nextStart == startPage + job.chunkSize
     IN /\ results' = newResults
        /\ intermediateResults' = newResults
        /\ pageResults' = newResults
        /\ startPage' = nextStart
        /\ IF nextStart <= job.numPages
           THEN /\ microQ' = Tail(microQ)
                /\ IF ChunkGate(job)
                   THEN /\ execPc' = "cleanup"
                        /\ UNCHANGED unitPc
                   ELSE /\ execPc' = "running"
                        /\ unitPc' = LaunchChunk(nextStart, job, unitPc)
           ELSE /\ microQ' = Append(Tail(microQ), <<"afterExec", 0>>)
                /\ UNCHANGED <<execPc, unitPc>>
  /\ UNCHANGED <<call, clipboardWrites, uncountedActions, loadedScripts, sessionData, actionsCount, file, fileType, processing, progress, error, extractedText,
                 memoryUsage, processingComplete, processingStats, pc, job,
                 semaphore, semIndex, unitMem, unitResult, unitSlot,
                 cleanupTimers>>

\* forceMemoryCleanup: setMemoryUsage((prev) => prev * 0.7) after its timer
forceMemoryCleanup(prev) == DecayFactor(prev)

\* the timer of the cleanup a chunk waits for fires
ChunkCleanupFire ==
  /\ TaskMayStart
  /\ execPc = "cleanup"
  /\ memoryUsage' = forceMemoryCleanup(memoryUsage)
  /\ microQ' = Append(microQ, <<"afterCleanup", 0>>)
  /\ UNCHANGED <<call, clipboardWrites, uncountedActions, loadedScripts, sessionData, actionsCount, file, fileType, processing, progress, error, extractedText,
                 pageResults, intermediateResults, processingComplete,
                 processingStats, pc, job, execVars, cleanupTimers>>

\* processChunked after `await forceMemoryCleanup()`: the chunk starts
AfterCleanup ==
  /\ microQ # <<>>
  /\ Head(microQ) = <<"afterCleanup", 0>>
  /\ microQ' = Tail(microQ)
  /\ execPc' = "running"
  /\ unitPc' = LaunchChunk(startPage, job, unitPc)
  /\ UNCHANGED <<reactVars, pc, job, results, semaphore, semIndex, startPage,
                 unitMem, unitResult, unitSlot, cleanupTimers, call, clipboardWrites, uncountedActions, loadedScripts>>

\* ----------------------------------------------------------- aggregation
\* Array.prototype.sort((a, b) => a - b)
RECURSIVE InsertSorted(_, _)
InsertSorted(sorted, k) ==
  IF sorted = <<>> THEN <<k>>
  ELSE IF k < Head(sorted) THEN <<k>> \o sorted
  ELSE <<Head(sorted)>> \o InsertSorted(Tail(sorted), k)

\* A variant that leaves the keys in the order of their insertion; C10
\* distinguishes it from SortAscending.
KeysAsInserted(keys) == keys

\* A variant that sorts as Array.prototype.sort() does without a comparator,
\* by the decimal strings of the keys (keys below 100); C13 distinguishes it
\* from SortAscending.
DigitRank(k) == IF k < 10 THEN k * 100 ELSE (k \div 10) * 100 + (k % 10) * 10 + 1
RECURSIVE InsertByDigits(_, _)
InsertByDigits(sorted, k) ==
  IF sorted = <<>> THEN <<k>>
  ELSE IF DigitRank(k) < DigitRank(Head(sorted)) THEN <<k>> \o sorted
  ELSE <<Head(sorted)>> \o InsertByDigits(Tail(sorted), k)
RECURSIVE SortByDigits(_)
SortByDigits(keys) ==
  IF keys = <<>> THEN <<>>
  ELSE InsertByDigits(SortByDigits(SubSeq(keys, 1, Len(keys) - 1)), keys[Len(keys)])

RECURSIVE SortAscending(_)
SortAscending(keys) ==
  IF keys = <<>> THEN <<>>
  ELSE InsertSorted(SortAscending(SubSeq(keys, 1, Len(keys) - 1)), keys[Len(keys)])

PageSection(pageNum, text) ==
  BannerHead \o NumToString(pageNum) \o BannerTail \o text \o <<NL>>

\* A variant of finalizeResults that leaves out the pages that failed; C8
\* distinguishes it from FinalText.
FinalTextOfRecognized(m, closureFileType) ==
  LET kept == SelectSeq(m, LAMBDA e : e.value.confidence # 0)
      sortedPages == SortAscending(MapKeys(kept))
      parts == [i \in 1..Len(sortedPages) |->
                  LET result == MapGet(kept, sortedPages[i])
                  IN IF closureFileType = "image" /\ Len(kept) = 1
                     THEN result.text
                     ELSE PageSection(sortedPages[i], result.text)]
  IN Join(parts, <<NL>>)

\* finalizeResults: the text it passes to setExtractedText
FinalText(m, closureFileType) ==
  LET sortedPages == SortAscending(MapKeys(m))
      parts == [i \in 1..Len(sortedPages) |->
                  LET result == MapGet(m, sortedPages[i])
                  IN IF closureFileType = "image" /\ Len(m) = 1
                     THEN result.text
                     ELSE PageSection(sortedPages[i], result.text)]
  IN Join(parts, <<NL>>)

\* processFile after the await of the executor: finalizeResults,
\* setProgress(100), and the finally block.
AfterExec ==
  /\ microQ # <<>>
  /\ Head(microQ) = <<"afterExec", 0>>
  /\ microQ' = Tail(microQ)
  /\ extractedText' = FinalText(results, job.fileType)
  /\ pageResults' = results
  /\ processingComplete' = TRUE
  /\ progress' = FracOfInt(100)
  /\ sessionData' = [sessionData EXCEPT !.filesProcessed = @ + 1,
                                         !.successfulExtractions = @ + 1]
  /\ processing' = FALSE
  /\ cleanupTimers' = cleanupTimers + 1
  /\ pc' = "idle"
  /\ job' = NoJob
  /\ ExecIdle
  /\ UNCHANGED <<call, clipboardWrites, uncountedActions, loadedScripts, actionsCount, file, fileType, error, memoryUsage,
                 intermediateResults, processingStats>>

\* processFile when the await of the executor throws: catch and finally
ExecThrow ==
  /\ microQ # <<>>
  /\ Head(microQ) = <<"execThrow", 0>>
  /\ microQ' = Tail(microQ)
  /\ CatchFinally(TypeErrorMessage(job.fileType))
  /\ UNCHANGED <<loadedScripts, actionsCount, file, fileType, progress, extractedText, memoryUsage,
                 pageResults, intermediateResults, processingComplete,
                 processingStats>>

\* the timer of the forceMemoryCleanup in a finally block fires
TrailingCleanupFire ==
  /\ TaskMayStart
  /\ cleanupTimers > 0
  /\ memoryUsage' = forceMemoryCleanup(memoryUsage)
  /\ cleanupTimers' = cleanupTimers - 1
  /\ UNCHANGED <<call, clipboardWrites, uncountedActions, loadedScripts, sessionData, actionsCount, file, fileType, processing, progress, error, extractedText,
                 pageResults, intermediateResults, processingComplete,
                 processingStats, pc, job, execVars, microQ>>

\* --------------------------------------------------------- result buttons
\* The Copy, Copy for Claude and Download buttons are rendered when a job
\* has finished and left a text.
ResultsShown == ~processing /\ processingComplete /\ extractedText # <<>>

\* handleCopyToClipboard, up to `await copyToClipboard(extractedText)`
handleCopyToClipboard ==
  /\ TaskMayStart
  /\ ResultsShown
  /\ UserMayAct
  /\ clipboardWrites' = [clipboardWrites EXCEPT !.copy = @ + 1]
  /\ UNCHANGED <<reactVars, pc, job, execVars, microQ, cleanupTimers,
                 uncountedActions, loadedScripts, call>>

\* handleCopyForClaude, up to `await navigator.clipboard.writeText(..)`.  The
\* text of a finished job holds a page header or the text of an image, so
\* extractedText.trim() is not empty when the button is there.
handleCopyForClaude ==
  /\ TaskMayStart
  /\ ResultsShown
  /\ UserMayAct
  /\ clipboardWrites' = [clipboardWrites EXCEPT !.claude = @ + 1]
  /\ UNCHANGED <<reactVars, pc, job, execVars, microQ, cleanupTimers,
                 uncountedActions, loadedScripts, call>>

\* navigator.clipboard.writeText settles: the handler that awaits it goes on
\* as a promise continuation.
ClipboardWriteSettle(kind, ok) ==
  /\ TaskMayStart
  /\ clipboardWrites[kind] > 0
  /\ clipboardWrites' = [clipboardWrites EXCEPT ![kind] = @ - 1]
  /\ uncountedActions' =
       IF kind = "claude" /\ ~ok THEN uncountedActions + 1 ELSE uncountedActions
  /\ UNCHANGED loadedScripts
  /\ microQ' = Append(microQ, <<kind, IF ok THEN 1 ELSE 0>>)
  /\ UNCHANGED <<reactVars, pc, job, execVars, cleanupTimers, call>>

\* handleCopyToClipboard after its await: the click is counted whether the
\* text was copied or not.
AfterCopyToClipboard ==
  /\ microQ # <<>>
  /\ Head(microQ)[1] = "copy"
  /\ microQ' = Tail(microQ)
  /\ actionsCount' = actionsCount + 1
  /\ IF Head(microQ)[2] = 1
     THEN UNCHANGED <<error, sessionData>>
     ELSE handleError(FailedToCopyMessage)
  /\ UNCHANGED <<file, fileType, processing, progress, extractedText,
                 memoryUsage, pageResults, intermediateResults,
                 processingComplete, processingStats, pc, job, execVars,
                 cleanupTimers, clipboardWrites, uncountedActions, loadedScripts, call>>

\* handleCopyForClaude after its await: the click is counted when the text
\* was copied.
AfterCopyForClaude ==
  /\ microQ # <<>>
  /\ Head(microQ)[1] = "claude"
  /\ microQ' = Tail(microQ)
  /\ IF Head(microQ)[2] = 1
     THEN /\ actionsCount' = actionsCount + 1
          /\ UNCHANGED <<error, sessionData>>
     ELSE /\ handleError(FailedToCopyForClaudeMessage)
          /\ UNCHANGED actionsCount
  /\ UNCHANGED <<file, fileType, processing, progress, extractedText,
                 memoryUsage, pageResults, intermediateResults,
                 processingComplete, processingStats, pc, job, execVars,
                 cleanupTimers, clipboardWrites, uncountedActions, loadedScripts, call>>

\* handleDownloadText: downloadTextFile builds a link and clicks it.
handleDownloadText ==
  /\ TaskMayStart
  /\ ResultsShown
  /\ UserMayAct
  /\ actionsCount' = actionsCount + 1
  /\ UNCHANGED <<file, fileType, processing, progress, error, extractedText,
                 memoryUsage, pageResults, intermediateResults,
                 processingComplete, processingStats, sessionData, pc, job,
                 execVars, microQ, cleanupTimers, clipboardWrites, uncountedActions, loadedScripts, call>>

\* --------------------------------------------------------- specification
\* One step of the program, for documents whose page count is in PageCounts.
ReturningStep(PageCounts) ==
  \/ handleFileUpload
  \/ handleFileSelect
  \/ \E s \in StrategySettings, c \in ColumnModes : ProcessFileClick(s, c)
  \/ TesseractOnload
  \/ \E ok \in BOOLEAN : PdfjsOnload(ok)
  \/ LoadLibrariesReturns
  \/ \E ok \in BOOLEAN : ArrayBufferSettle(ok)
  \/ \E ok \in BOOLEAN, n \in PageCounts, size \in FileSizesMB :
       GetDocumentSettle(ok, n, size)
  \/ \E p \in DOMAIN unitPc : ResumeUnit(p)
  \/ \E p \in DOMAIN unitPc, ok \in BOOLEAN, canvas \in Canvases, m \in EngineMessages :
       GetPageSettle(p, ok, canvas, m)
  \/ \E p \in DOMAIN unitPc, ok \in BOOLEAN, m \in EngineMessages : RenderSettle(p, ok, m)
  \/ \E p \in DOMAIN unitPc, ok \in BOOLEAN, c \in Confidences,
        m \in EngineMessages : RecognizeSettle(p, ok, RawTextOfPage(p), c, m)
  \/ \E ok \in BOOLEAN, canvas \in Canvases : ImageLoadSettle(ok, canvas)
  \/ \E mProgress \in LoggerProgress : ImageRecognizeLogger(mProgress)
  \/ \E p \in DOMAIN unitPc : StoreResult(p)
  \/ ChunkDone
  \/ ChunkCleanupFire
  \/ AfterCleanup
  \/ AfterExec
  \/ ExecThrow
  \/ TrailingCleanupFire
  \/ handleCopyToClipboard
  \/ handleCopyForClaude
  \/ handleDownloadText
  \/ \E kind \in {"copy", "claude"}, ok \in BOOLEAN : ClipboardWriteSettle(kind, ok)
  \/ AfterCopyToClipboard
  \/ AfterCopyForClaude

\* Every step of the program: those above, and the script of an engine that
\* cannot be loaded.
Step(PageCounts) ==
  \/ ReturningStep(PageCounts)
  \/ ScriptNeverLoads

\* The session: the user selects files, starts jobs and uses the result
\* buttons, with MaxActions counted actions in all, on documents of up to
\* MaxSessionPages pages.
Next == Step(1..MaxSessionPages)
Spec == Init /\ [][Next]_vars

\* The steps that are not the user's: the engine's calls return, the promise
\* continuations run and the timers fire.
EngineStep(PageCounts) ==
  \/ TesseractOnload
  \/ \E ok \in BOOLEAN : PdfjsOnload(ok)
  \/ LoadLibrariesReturns
  \/ \E ok \in BOOLEAN : ArrayBufferSettle(ok)
  \/ \E ok \in BOOLEAN, n \in PageCounts, size \in FileSizesMB :
       GetDocumentSettle(ok, n, size)
  \/ \E p \in DOMAIN unitPc : ResumeUnit(p)
  \/ \E p \in DOMAIN unitPc, ok \in BOOLEAN, canvas \in Canvases, m \in EngineMessages :
       GetPageSettle(p, ok, canvas, m)
  \/ \E p \in DOMAIN unitPc, ok \in BOOLEAN, m \in EngineMessages : RenderSettle(p, ok, m)
  \/ \E p \in DOMAIN unitPc, ok \in BOOLEAN, c \in Confidences,
        m \in EngineMessages : RecognizeSettle(p, ok, RawTextOfPage(p), c, m)
  \/ \E ok \in BOOLEAN, canvas \in Canvases : ImageLoadSettle(ok, canvas)
  \/ \E p \in DOMAIN unitPc : StoreResult(p)
  \/ ChunkDone
  \/ ChunkCleanupFire
  \/ AfterCleanup
  \/ AfterExec
  \/ ExecThrow
  \/ TrailingCleanupFire
  \/ \E kind \in {"copy", "claude"}, ok \in BOOLEAN : ClipboardWriteSettle(kind, ok)
  \/ AfterCopyToClipboard
  \/ AfterCopyForClaude

\* One job on documents of up to MaxPages pages.  It starts where a session
\* has one user action left: a file was just selected, or a three-page job has
\* ended whose pages all failed in rendering and the cleanup of its finally
\* block has run, so that the estimate holds 0.7 of their three surfaces.
LeakedResults ==
  LET m == CHOOSE x \in EngineMessages : TRUE
  IN MapSetAll(EmptyMap, <<ErrorResult(1, m), ErrorResult(2, m), ErrorResult(3, m)>>)

InitJob ==
  /\ call = NoCall
  /\ processing = FALSE
  /\ error = <<>>
  /\ actionsCount = MaxActions - 1
  /\ pc = "idle"
  /\ job = NoJob
  /\ execPc = "none"
  /\ results = EmptyMap
  /\ semaphore = <<>>
  /\ semIndex = 0
  /\ startPage = 0
  /\ unitPc = <<>>
  /\ unitMem = <<>>
  /\ unitResult = <<>>
  /\ unitSlot = <<>>
  /\ microQ = <<>>
  /\ \/ /\ file \in {PdfMime, "image/png"}
        /\ fileType = (IF file = PdfMime THEN "pdf" ELSE "image")
        /\ progress = FracOfInt(0)
        /\ extractedText = <<>>
        /\ memoryUsage = DecZero
        /\ pageResults = EmptyMap
        /\ intermediateResults = EmptyMap
        /\ processingComplete = FALSE
        /\ processingStats = NoStats
        /\ sessionData = NoSessionData
        /\ cleanupTimers = 0
        /\ clipboardWrites = NoWrites
        /\ uncountedActions = 0
        /\ loadedScripts = {}
     \/ /\ file = PdfMime
        /\ fileType = "pdf"
        /\ progress = FracOfInt(100)
        /\ extractedText = FinalText(LeakedResults, "pdf")
        /\ memoryUsage = forceMemoryCleanup(DecOfInt(3 * estimateMemoryUsage(<<16384, 8192>>)))
        /\ pageResults = LeakedResults
        /\ intermediateResults = LeakedResults
        /\ processingComplete = TRUE
        /\ processingStats =
             [totalPages |-> 3, completedPages |-> 3,
              averageTimePerPage |-> PageTimeMs \div 1000,
              estimatedTimeRemaining |-> (PageTimeMs * (0 - (0 + 1))) \div 1000]
        /\ sessionData = [NoSessionData EXCEPT !.filesProcessed = 1,
                                                !.successfulExtractions = 1]
        /\ cleanupTimers = 0
        /\ clipboardWrites = NoWrites
        /\ uncountedActions = 0
        /\ loadedScripts = {"Tesseract", "pdfjsLib"}

NextJob == Step(1..MaxPages)
SpecJob == InitJob /\ [][NextJob]_vars

\* One job on a document of up to MaxSessionPages pages in which every call
\* of the engine returns: a step of the engine that stays possible is
\* eventually taken.
NextReturning == ReturningStep(1..MaxSessionPages)
SpecFair ==
  InitJob /\ [][NextReturning]_vars /\ WF_vars(EngineStep(1..MaxSessionPages))

\* The same job when the script of an engine may fail to load.
SpecLoad == InitJob /\ [][Next]_vars /\ WF_vars(EngineStep(1..MaxSessionPages))

\* A five-page job, from the same starting points.
NextFivePages == Step({5})
SpecFivePages == InitJob /\ [][NextFivePages]_vars

\* finalizeResults on its own: a map is filled by results.set in any order,
\* with results of the pages FinalizeKeys, and finalizeResults is called on it
\* any number of times.
FinalizeKeys == {1, 2, 10}
FinalizeValues(k) ==
  {OkResult(k, RawTextOfPage(k), c) : c \in Confidences}
    \cup {ErrorResult(k, m) : m \in EngineMessages}

\* The state after the selection of a file, the job record and the call
\* record apart.
FileSelected ==
  /\ file \in {PdfMime, "image/png"}
  /\ fileType = (IF file = PdfMime THEN "pdf" ELSE "image")
  /\ processing = FALSE
  /\ progress = FracOfInt(0)
  /\ error = <<>>
  /\ extractedText = <<>>
  /\ memoryUsage = DecZero
  /\ pageResults = EmptyMap
  /\ intermediateResults = EmptyMap
  /\ processingComplete = FALSE
  /\ processingStats = NoStats
  /\ actionsCount = 1
  /\ sessionData = NoSessionData
  /\ pc = "idle"
  /\ execPc = "none"
  /\ results = EmptyMap
  /\ semaphore = <<>>
  /\ semIndex = 0
  /\ startPage = 0
  /\ unitPc = <<>>
  /\ unitMem = <<>>
  /\ unitResult = <<>>
  /\ unitSlot = <<>>
  /\ microQ = <<>>
  /\ cleanupTimers = 0
  /\ clipboardWrites = NoWrites
  /\ uncountedActions = 0
  /\ loadedScripts = {}

InitFinalize == FileSelected /\ job = NoJob /\ call = NoCall

\* results.set(pageNum, result)
ResultsSet(k, v) ==
  /\ results' = MapSet(results, k, v)
  /\ UNCHANGED <<reactVars, pc, job, execPc, semaphore, semIndex, startPage,
                 unitPc, unitMem, unitResult, unitSlot, microQ, cleanupTimers,
                 clipboardWrites, uncountedActions, loadedScripts, call>>

\* finalizeResults(results)
finalizeResults ==
  /\ extractedText' = FinalText(results, fileType)
  /\ pageResults' = results
  /\ processingComplete' = TRUE
  /\ UNCHANGED <<call, clipboardWrites, uncountedActions, loadedScripts, sessionData, actionsCount, file, fileType, processing, progress, error,
                 memoryUsage, intermediateResults, processingStats, pc, job,
                 execVars, microQ, cleanupTimers>>

NextFinalize ==
  \/ \E k \in FinalizeKeys : \E v \in FinalizeValues(k) : ResultsSet(k, v)
  \/ finalizeResults
SpecFinalize == InitFinalize /\ [][NextFinalize]_vars

\* selectProcessingStrategy on its own: it is called, any number of times,
\* with a mode that is a setting of the form or another string, a page count
\* up to MaxSelectPages and a file size.
SelectModes == StrategySettings \cup {"sequential"}
InitSelect ==
  /\ FileSelected
  /\ call = NoCall
  /\ \E mode \in SelectModes, pageCount \in 0..MaxSelectPages :
       job = [NoJob EXCEPT !.processingStrategy = mode, !.numPages = pageCount]
SelectStrategyCall(fileSizeMB) ==
  /\ job' = [job EXCEPT !.strategy =
               selectProcessingStrategy(job.processingStrategy, job.numPages,
                                        fileSizeMB)]
  /\ UNCHANGED <<reactVars, pc, execVars, microQ, cleanupTimers, call, clipboardWrites, uncountedActions, loadedScripts>>
NextSelect == \E fileSizeMB \in FileSizesMB : SelectStrategyCall(fileSizeMB)
SpecSelect == InitSelect /\ [][NextSelect]_vars

\* ------------------------------------------------------- column detection
\* A canvas is described by what detectColumns reads from it: its size and,
\* for each x, the number of pixels of column x whose gray value is below 128
\* (verticalProjection).  The rasters drawn here are text columns of
\* textDark dark pixels with one vertical band of gapDark dark pixels.
RasterWidths == {41, 100, 200}
RasterHeight == 100
TextDark == 30
GapDarks == {0, 1}
Sensitivities == {"high", "medium", "low"}
ColumnProcessingModes == {"auto", "force_columns", "single", "force_single"}
\* The band starts at every x of the narrowest rasters and at every 5% of
\* the width of the others; a lightly printed band is drawn on the rasters
\* of width 100.
GapStartsOf(w) == {s \in 0..(w - 1) : w < 100 \/ (s * 20) % w = 0}
GapDarksOf(w) == IF w = 100 THEN GapDarks ELSE {0}
RastersOfWidth(w) ==
  {[width |-> w, height |-> RasterHeight, gapStart |-> 0, gapWidth |-> 0,
    gapDark |-> 0]}
  \cup UNION {{[width |-> w, height |-> RasterHeight, gapStart |-> s,
                gapWidth |-> g, gapDark |-> d] :
                  g \in 1..(w - s), d \in GapDarksOf(w)} : s \in GapStartsOf(w)}
Rasters == UNION {RastersOfWidth(w) : w \in RasterWidths}

verticalProjection(canvas, x) ==
  IF canvas.gapStart <= x /\ x < canvas.gapStart + canvas.gapWidth
  THEN canvas.gapDark ELSE TextDark

\* Math.floor(width * c) for the double c nearest to num/den: the product of
\* doubles falls just below the exact integer for the widths in `below`
\* (widths up to 400).
FloorOfProduct(width, num, den, below) ==
  IF width \in below THEN (width * num) \div den - 1 ELSE (width * num) \div den

\* The switch on sensitivity; the threshold maxDarkPixelsThreshold is held
\* as the fraction thresholdNum / thresholdDen of the height.
SearchParameters(width, sensitivity) ==
  IF sensitivity = "high"
  THEN [searchStartX |-> FloorOfProduct(width, 25, 100, {}),
        searchEndX |-> FloorOfProduct(width, 75, 100, {}),
        minGapWidth |-> FloorOfProduct(width, 5, 1000, {}),
        thresholdNum |-> 20, thresholdDen |-> 1000]
  ELSE IF sensitivity = "low"
  THEN [searchStartX |-> FloorOfProduct(width, 35, 100, {180, 340, 360}),
        searchEndX |-> FloorOfProduct(width, 65, 100, {}),
        minGapWidth |-> FloorOfProduct(width, 5, 100, {}),
        thresholdNum |-> 5, thresholdDen |-> 1000]
  ELSE [searchStartX |-> FloorOfProduct(width, 3, 10, {}),
        searchEndX |-> FloorOfProduct(width, 7, 10,
                                      {90, 170, 180, 330, 340, 350, 360}),
        minGapWidth |-> FloorOfProduct(width, 15, 1000, {}),
        thresholdNum |-> 15, thresholdDen |-> 1000]

NoGap == [start |-> -1, width |-> 0]

\* The test that makes the current gap the best gap.
ReplacesBest(current, best, minGapWidth) ==
  /\ current.start # -1
  /\ current.width > best.width
  /\ current.width >= minGapWidth

\* The body of the loop over x: `gaps` is <<current gap, best gap>> before
\* the iteration and the value is the pair after it.  Past searchEndX - 1
\* there is no iteration.
LoopBody(canvas, p, x, gaps) ==
  IF x >= p.searchEndX THEN gaps
  ELSE LET current == gaps[1]
           best == gaps[2]
       IN IF verticalProjection(canvas, x) * p.thresholdDen
               < canvas.height * p.thresholdNum
          THEN <<IF current.start = -1 THEN [start |-> x, width |-> 1]
                 ELSE [current EXCEPT !.width = @ + 1],
                 best>>
          ELSE <<NoGap,
                 IF ReplacesBest(current, best, p.minGapWidth)
                 THEN current ELSE best>>

\* The loop over x from searchStartX to searchEndX - 1, eight iterations at
\* a time; its value is <<current gap, best gap>> at the end of the loop.
RECURSIVE ScanForGap(_, _, _, _)
ScanForGap(canvas, p, x, gaps) ==
  IF x >= p.searchEndX THEN gaps
  ELSE LET after ==
             LoopBody(canvas, p, x + 7,
               LoopBody(canvas, p, x + 6,
                 LoopBody(canvas, p, x + 5,
                   LoopBody(canvas, p, x + 4,
                     LoopBody(canvas, p, x + 3,
                       LoopBody(canvas, p, x + 2,
                         LoopBody(canvas, p, x + 1,
                           LoopBody(canvas, p, x, gaps))))))))
       IN \* `after` is a value before the next iterations start
          IF after[1].width >= 0 /\ after[2].width >= 0
          THEN ScanForGap(canvas, p, x + 8, after)
          ELSE after

\* A variant whose confidence rises in whole multiples of the minimum gap
\* width; C25 distinguishes it from GapConfidence.
GapConfidenceInWholeSteps(bestGapWidth, minGapWidth) ==
  IF minGapWidth = 0 \/ bestGapWidth >= 5 * minGapWidth THEN <<1, 1>>
  ELSE Frac(bestGapWidth \div minGapWidth, 5)

\* A variant whose confidence saturates at twice the minimum gap width; C27
\* distinguishes it from GapConfidence.
GapConfidenceSaturatingEarly(bestGapWidth, minGapWidth) ==
  IF minGapWidth = 0 \/ bestGapWidth >= 2 * minGapWidth THEN <<1, 1>>
  ELSE Frac(bestGapWidth, 2 * minGapWidth)

\* Math.min(bestGapWidth / minGapWidth, 5) / 5 as a fraction; a division by
\* a minGapWidth of 0 gives Infinity, of which the minimum with 5 is 5.
GapConfidence(bestGapWidth, minGapWidth) ==
  IF minGapWidth = 0 \/ bestGapWidth >= 5 * minGapWidth THEN <<1, 1>>
  ELSE Frac(bestGapWidth, 5 * minGapWidth)

\* A variant that puts the separator at the start of the gap; C26
\* distinguishes it from SeparatorOf.
SeparatorAtGapStart(bestGapStart, bestGapWidth) == bestGapStart

SeparatorOf(bestGapStart, bestGapWidth) == bestGapStart + bestGapWidth \div 2

detectColumns(canvas, sensitivity) ==
  LET p == SearchParameters(canvas.width, sensitivity)
      scanned == ScanForGap(canvas, p, p.searchStartX, <<NoGap, NoGap>>)
      best == IF ReplacesBest(scanned[1], scanned[2], p.minGapWidth)
              THEN scanned[1] ELSE scanned[2]
  IN IF best.start # -1
     THEN LET separatorX == SeparatorOf(best.start, best.width)
          IN [hasColumns |-> TRUE,
              rightColumn |-> [x |-> 0, width |-> separatorX],
              leftColumn |-> [x |-> separatorX,
                              width |-> canvas.width - separatorX],
              confidence |-> GapConfidence(best.width, p.minGapWidth),
              gapInfo |-> [start |-> best.start, width |-> best.width,
                           separator |-> separatorX]]
     ELSE [hasColumns |-> FALSE, confidence |-> <<0, 1>>]

\* --------------------------------------------------------- column processing
\* extractColumnImage(canvas, columnBounds, padding = 10): the x range copied
\* into the column canvas.
ColumnPadding == 10
extractColumnImage(canvas, columnBounds) ==
  LET startX == IF columnBounds.x - ColumnPadding > 0
                THEN columnBounds.x - ColumnPadding ELSE 0
      endX == Min(canvas.width,
                  columnBounds.x + columnBounds.width + ColumnPadding)
  IN [startX |-> startX, width |-> endX - startX]

\* The page printed on the rasters has a text block at its right-hand edge
\* and one at its left-hand edge; the engine returns, right-hand block first,
\* the blocks whose edge lies in the image it is given.
RightHandText == <<1497, 1502, 1497, 1503>>
LeftHandText == <<1513, 1502, 1488, 1500>>
RecognizeRegion(canvas, region) ==
  LET hasRight == region.startX + region.width = canvas.width
      hasLeft == region.startX = 0
  IN IF hasRight /\ hasLeft THEN RightHandText \o <<NL>> \o LeftHandText
     ELSE IF hasRight THEN RightHandText
     ELSE IF hasLeft THEN LeftHandText
     ELSE <<>>
WholeCanvas(canvas) == [startX |-> 0, width |-> canvas.width]

RightLabel == <<45, 45, 45, 32, 82, 105, 103, 104, 116, 32, 67, 111, 108,
                117, 109, 110, 32, 45, 45, 45, 10>>
LeftLabel == <<10, 10, 45, 45, 45, 32, 76, 101, 102, 116, 32, 67, 111, 108,
               117, 109, 110, 32, 45, 45, 45, 10>>

\* The branch for "single" and "force_single", after its await: ocrText is
\* what Tesseract.recognize returned for the whole canvas.
SingleColumnResultOf(processingMode, ocrText) ==
  LET cleanedText == validateHebrewText(ocrText)
      confidence == <<CHOOSE c \in Confidences : TRUE, 1>>
  IN [mode |-> processingMode,
      columns |-> <<[type |-> "single", text |-> cleanedText,
                     confidence |-> confidence]>>,
      fullText |-> cleanedText,
      confidence |-> confidence]
SingleColumnResult(canvas, processingMode) ==
  SingleColumnResultOf(processingMode, RecognizeRegion(canvas, WholeCanvas(canvas)))

\* A variant whose forced split takes the left half as its right column;
\* C24 distinguishes it from ForcedSplit.
ForcedSplitAtQuarter(canvas) ==
  LET quarterWidth == canvas.width \div 4
  IN [rightColumn |-> [x |-> quarterWidth, width |-> canvas.width - quarterWidth],
      leftColumn |-> [x |-> 0, width |-> quarterWidth],
      confidence |-> <<3, 10>>]

\* The bounds and the confidence of the forced 50/50 split.
ForcedSplit(canvas) ==
  LET halfWidth == canvas.width \div 2
  IN [rightColumn |-> [x |-> halfWidth, width |-> halfWidth],
      leftColumn |-> [x |-> 0, width |-> halfWidth],
      confidence |-> <<3, 10>>]

\* The two-column branch: both columns are recognized, the right one first,
\* and fullText is put together.
TwoColumnResultOf(processingMode, split, rightOcrText, leftOcrText) ==
  LET confidence == <<CHOOSE c \in Confidences : TRUE, 1>>
      rightText == validateHebrewText(rightOcrText)
      leftText == validateHebrewText(leftOcrText)
  IN [mode |-> processingMode,
      columns |-> <<[type |-> "right", text |-> rightText,
                     confidence |-> confidence, bounds |-> split.rightColumn],
                    [type |-> "left", text |-> leftText,
                     confidence |-> confidence, bounds |-> split.leftColumn]>>,
      fullText |-> RightLabel \o leftText \o LeftLabel \o rightText,
      confidence |-> split.confidence]
TwoColumnResult(canvas, processingMode, split) ==
  TwoColumnResultOf(processingMode, split,
    RecognizeRegion(canvas, extractColumnImage(canvas, split.rightColumn)),
    RecognizeRegion(canvas, extractColumnImage(canvas, split.leftColumn)))

\* A variant of the auto fallback that compares with 0.5; C23 distinguishes
\* it from AutoFallsBack.
AutoFallsBackBelowHalf(columnDetection) ==
  \/ ~columnDetection.hasColumns
  \/ columnDetection.confidence[1] * 2 < columnDetection.confidence[2]

\* !columnDetection.hasColumns || columnDetection.confidence < 0.3
AutoFallsBack(columnDetection) ==
  \/ ~columnDetection.hasColumns
  \/ columnDetection.confidence[1] * 10 < 3 * columnDetection.confidence[2]

\* The bounds and the confidence the two-column branch works with.
SplitOf(canvas, columnDetection) ==
  IF columnDetection.hasColumns
  THEN [rightColumn |-> columnDetection.rightColumn,
        leftColumn |-> columnDetection.leftColumn,
        confidence |-> columnDetection.confidence]
  ELSE ForcedSplit(canvas)

\* The mode the branch taken reports: "columns" stands for the two-column
\* branch, which reports processingMode; the fallbacks call the function
\* again with "single".
BranchOf(canvas, processingMode, sensitivity) ==
  IF processingMode \in {"single", "force_single"} THEN processingMode
  ELSE LET columnDetection == detectColumns(canvas, sensitivity)
       IN IF processingMode = "auto" /\ AutoFallsBack(columnDetection)
          THEN "single"
          ELSE IF processingMode = "force_columns" \/ columnDetection.hasColumns
          THEN "columns"
          ELSE "single"

\* processWithColumnDetection(canvas, processingMode, scriptMode, sensitivity):
\* the value its promise resolves with.
processWithColumnDetection(canvas, processingMode, sensitivity) ==
  LET branch == BranchOf(canvas, processingMode, sensitivity)
  IN IF branch = "columns"
     THEN TwoColumnResult(canvas, processingMode,
                          SplitOf(canvas, detectColumns(canvas, sensitivity)))
     ELSE SingleColumnResult(canvas, branch)

\* detectColumns and processWithColumnDetection on their own: each is called
\* once on a raster and a sensitivity drawn at the start.
InitColumns ==
  /\ FileSelected
  /\ file = PdfMime
  /\ job = NoJob
  /\ \E canvas \in Rasters, sensitivity \in Sensitivities :
       call = [fn |-> "none", canvas |-> canvas, sensitivity |-> sensitivity]
DetectColumnsCall ==
  /\ call.fn = "none"
  /\ call' = [fn |-> "detectColumns", canvas |-> call.canvas,
              sensitivity |-> call.sensitivity,
              result |-> detectColumns(call.canvas, call.sensitivity)]
  /\ UNCHANGED <<reactVars, pc, job, execVars, microQ, cleanupTimers,
                 clipboardWrites, uncountedActions, loadedScripts>>
\* processWithColumnDetection up to its first await: Tesseract.recognize is
\* called on the whole canvas or on the image of the right column.
ProcessWithColumnDetectionCall(processingMode) ==
  /\ call.fn = "none"
  /\ call' = [fn |-> "processWithColumnDetection", canvas |-> call.canvas,
              processingMode |-> processingMode,
              sensitivity |-> call.sensitivity,
              columnDetection |-> detectColumns(call.canvas, call.sensitivity),
              branch |-> BranchOf(call.canvas, processingMode, call.sensitivity),
              awaits |-> IF BranchOf(call.canvas, processingMode,
                                     call.sensitivity) = "columns"
                         THEN "recognizeRight" ELSE "recognize",
              rightOcrText |-> <<>>,
              result |-> NoResult]
  /\ UNCHANGED <<reactVars, pc, job, execVars, microQ, cleanupTimers,
                 clipboardWrites, uncountedActions, loadedScripts>>

\* Tesseract.recognize settles and the function goes on: to the recognition
\* of the left column after that of the right one, to its return otherwise.
ColumnRecognizeSettle ==
  /\ call.fn = "processWithColumnDetection"
  /\ call.awaits # "none"
  /\ LET split == SplitOf(call.canvas, call.columnDetection)
     IN call' =
          IF call.awaits = "recognize"
          THEN [call EXCEPT
                  !.awaits = "none",
                  !.result = SingleColumnResultOf(call.branch,
                               RecognizeRegion(call.canvas, WholeCanvas(call.canvas)))]
          ELSE IF call.awaits = "recognizeRight"
          THEN [call EXCEPT
                  !.awaits = "recognizeLeft",
                  !.rightOcrText =
                     RecognizeRegion(call.canvas,
                       extractColumnImage(call.canvas, split.rightColumn))]
          ELSE [call EXCEPT
                  !.awaits = "none",
                  !.result = TwoColumnResultOf(call.processingMode, split,
                               call.rightOcrText,
                               RecognizeRegion(call.canvas,
                                 extractColumnImage(call.canvas, split.leftColumn)))]
  /\ UNCHANGED <<reactVars, pc, job, execVars, microQ, cleanupTimers,
                 clipboardWrites, uncountedActions, loadedScripts>>

\* The call of processWithColumnDetection has returned its result.
ProcessWithColumnDetectionReturned ==
  call.fn = "processWithColumnDetection" /\ call.awaits = "none"

NextColumns ==
  \/ DetectColumnsCall
  \/ \E processingMode \in ColumnProcessingModes :
       ProcessWithColumnDetectionCall(processingMode)
  \/ ColumnRecognizeSettle
SpecColumns == InitColumns /\ [][NextColumns]_vars

\* ------------------------------------------------------- text validation
\* validateHebrewText on its own, called once on a text of up to MaxTextLen
\* characters: a Hebrew letter, a vowel point, a Hebrew punctuation mark, a
\* cantillation mark (in the Hebrew block, not kept), a Latin letter, a full
\* stop, a space and a line feed.
TextAlphabet == {1488, 1456, 1523, 1425, 120, 46, SP, NL}
Texts == UNION {[1..n -> TextAlphabet] : n \in 0..MaxTextLen}
InitValidate ==
  /\ FileSelected
  /\ file = PdfMime
  /\ job = NoJob
  /\ \E text \in Texts : call = [fn |-> "none", text |-> text]
ValidateHebrewTextCall ==
  /\ call.fn = "none"
  /\ call' = [fn |-> "validateHebrewText", text |-> call.text,
              result |-> validateHebrewText(call.text)]
  /\ UNCHANGED <<reactVars, pc, job, execVars, microQ, cleanupTimers,
                 clipboardWrites, uncountedActions, loadedScripts>>
NextValidate == ValidateHebrewTextCall
SpecValidate == InitValidate /\ [][NextValidate]_vars

\* ----------------------------------------------------------- render scale
\* A scale is the double nearest to num / den, moved by ulps units in the
\* last place: 1.5 * 1.2 is 1.7999999999999998, one below the double of 1.8,
\* and 1.5 * 0.8 is 1.2000000000000002, one above the double of 1.2.
ScaleOf(num, den) == [num |-> num, den |-> den, ulps |-> 0]

\* Viewports of a page at scale 1.0, with areas on both sides of 1,000,000
\* and 2,000,000.
ViewportWidths == {600, 800, 1000, 1001, 1334, 2000}
ViewportHeights == {800, 1000, 1001, 2000}
PageComplexities == {"low", "medium", "high"}

\* baseScale * complexityMultiplier, both given in tenths.
ProductOfTenths(baseScale, complexityMultiplier) ==
  [num |-> baseScale * complexityMultiplier, den |-> 100,
   ulps |-> IF baseScale = 15 /\ complexityMultiplier = 12 THEN -1
            ELSE IF baseScale = 15 /\ complexityMultiplier = 8 THEN 1
            ELSE 0]

getOptimalScale(viewport, pageComplexity) ==
  LET area == viewport.width * viewport.height
      baseScale == IF area > 2000000 THEN 12
                   ELSE IF area > 1000000 THEN 15 ELSE 20
      complexityMultiplier == IF pageComplexity = "high" THEN 12
                              ELSE IF pageComplexity = "low" THEN 8 ELSE 10
      product == ProductOfTenths(baseScale, complexityMultiplier)
  IN IF product.num * 10 <= 25 * product.den THEN product ELSE ScaleOf(25, 10)

\* Math.min(2.5, Math.max(1.5, 2000 / Math.max(width, height)))
HebrewSeferScale(viewport) ==
  LET longSide == IF viewport.width >= viewport.height
                  THEN viewport.width ELSE viewport.height
      atLeast == IF 2000 * 10 > 15 * longSide
                 THEN ScaleOf(2000, longSide) ELSE ScaleOf(15, 10)
  IN IF atLeast.num * 10 < 25 * atLeast.den THEN atLeast ELSE ScaleOf(25, 10)

InitScale ==
  /\ FileSelected
  /\ file = PdfMime
  /\ job = NoJob
  /\ \E width \in ViewportWidths, height \in ViewportHeights :
       call = [fn |-> "none", viewport |-> [width |-> width, height |-> height]]
GetOptimalScaleCall(pageComplexity) ==
  /\ call.fn = "none"
  /\ call' = [fn |-> "getOptimalScale", viewport |-> call.viewport,
              pageComplexity |-> pageComplexity,
              scale |-> getOptimalScale(call.viewport, pageComplexity)]
  /\ UNCHANGED <<reactVars, pc, job, execVars, microQ, cleanupTimers,
                 clipboardWrites, uncountedActions, loadedScripts>>
\* processSinglePage up to page.getViewport({ scale: optimalScale }).
ProcessSinglePageViewport ==
  /\ call.fn = "none"
  /\ call' = [fn |-> "processSinglePage", viewport |-> call.viewport,
              columnMode |-> "single",
              scale |-> getOptimalScale(call.viewport, "medium")]
  /\ UNCHANGED <<reactVars, pc, job, execVars, microQ, cleanupTimers,
                 clipboardWrites, uncountedActions, loadedScripts>>
\* processHebrewSeferPage up to page.getViewport({ scale }).
ProcessHebrewSeferPageViewport(columnMode) ==
  /\ call.fn = "none"
  /\ call' = [fn |-> "processHebrewSeferPage", viewport |-> call.viewport,
              columnMode |-> columnMode,
              scale |-> HebrewSeferScale(call.viewport)]
  /\ UNCHANGED <<reactVars, pc, job, execVars, microQ, cleanupTimers,
                 clipboardWrites, uncountedActions, loadedScripts>>
NextScale ==
  \/ \E pageComplexity \in PageComplexities : GetOptimalScaleCall(pageComplexity)
  \/ ProcessSinglePageViewport
  \/ \E columnMode \in {"auto", "force_columns"} :
       ProcessHebrewSeferPageViewport(columnMode)
SpecScale == InitScale /\ [][NextScale]_vars

\* ------------------------------------------------------------ properties
PdfExecutors == {"parallel", "chunked"}
Started(p) == unitPc[p] \in {"getPage", "render", "recognize"}
Rendering(p) == unitPc[p] \in {"render", "recognize"}
Settled(p) == unitPc[p] = "settled"
Returned == \E i \in 1..Len(microQ) : microQ[i] = <<"afterExec", 0>>

\* C1: in the parallel/batch executor the page units that have started their
\* rendering or recognition and have not completed are never more than
\* maxConcurrency.
C1_AtMostMaxConcurrencyInFlight ==
  job.executor = "parallel" =>
    Cardinality({p \in DOMAIN unitPc : Rendering(p)}) <= job.maxConcurrency

\* C2: in the parallel/batch executor two units share a slot exactly when
\* their indices are congruent modulo maxConcurrency, and a unit is not in
\* its per-page processing unless the earlier units of its slot have completed.
C2_SlotByIndexAndWaitsForOccupant ==
  job.executor = "parallel" =>
    \A p, q \in DOMAIN unitPc :
      (p < q /\ unitPc[p] # "awaitSlot" /\ unitPc[q] # "awaitSlot") =>
        /\ (unitSlot[p] = unitSlot[q]) <=>
             (p % job.maxConcurrency = q % job.maxConcurrency)
        /\ (unitSlot[p] = unitSlot[q] /\ Started(q)) => Settled(p)

\* C3: whenever the chunked/progressive executor decides how a chunk starts,
\* a cleanup pass runs exactly when the memory estimate of that moment exceeds
\* 800, and with such an estimate no page of the chunk starts before the
\* cleanup has settled.
ChunkDecision ==
  /\ job'.executor = "chunked"
  /\ startPage' # startPage
  /\ startPage' <= job'.numPages
C3_GateOnCurrentEstimate ==
  [][ChunkDecision =>
       /\ (execPc' = "cleanup") <=> DecGreater(memoryUsage', MemoryThresholdMB)
       /\ DecGreater(memoryUsage', MemoryThresholdMB) =>
            \A p \in ChunkPages(startPage', job'.chunkSize, job'.numPages) :
              unitPc'[p] = "idle"]_vars

\* C4: the chunked/progressive executor works on the contiguous ranges
\* 1..chunkSize, chunkSize+1..2*chunkSize, ... : the pages of one range start
\* together, and no page of a later range has started while a page of an
\* earlier range has not settled.
RangeOf(p) == (p - 1) \div job.chunkSize
C4_ChunksContiguousAndSequential ==
  job.executor = "chunked" =>
    \A p, q \in DOMAIN unitPc :
      /\ RangeOf(p) = RangeOf(q) => (unitPc[p] = "idle" <=> unitPc[q] = "idle")
      /\ (RangeOf(p) < RangeOf(q) /\ unitPc[q] # "idle") => Settled(p)
\* The second range of a progressive run is in work, its first range settled.
C4_SecondChunkRunning ==
  /\ job.executor = "chunked"
  /\ job.chunkSize = ProgressiveChunkSize
  /\ job.numPages = ProgressiveChunkSize + 1
  /\ \A p \in 1..ProgressiveChunkSize : Settled(p)
  /\ Rendering(ProgressiveChunkSize + 1)

\* C5: during a chunked/progressive run the memory estimate is never more
\* than the surfaces of some chunkSize pages of the document taken together.
RECURSIVE SumMem(_)
SumMem(S) ==
  IF S = {} THEN 0
  ELSE LET p == CHOOSE x \in S : TRUE IN unitMem[p] + SumMem(S \ {p})
C5_EstimateWithinOneChunk ==
  job.executor = "chunked" =>
    \E S \in SUBSET DOMAIN unitPc :
      /\ Cardinality(S) <= job.chunkSize
      /\ DecLessEq(memoryUsage, SumMem(S))

\* C6: when a run of the parallel/batch executor has returned, every unit has
\* settled and the returned map holds an entry for each page 1..pageCount and
\* for nothing else.
C6_ReturnsAfterAllSettled ==
  (job.executor = "parallel" /\ Returned) =>
    /\ \A p \in 1..job.numPages : Settled(p)
    /\ {results[i].key : i \in 1..Len(results)} = 1..job.numPages
    /\ Len(results) = job.numPages
\* The executor has returned from a run of more pages than its bound in
\* which a unit failed.
C6_ReturnedWithFailure ==
  /\ job.executor = "parallel"
  /\ Returned
  /\ job.numPages > job.maxConcurrency
  /\ \E p \in 1..job.numPages : unitResult[p].confidence = 0

\* C7: a page unit that has settled holds either its validated text or, with
\* confidence 0, the text "[Error processing page N: <message>]"; a failure
\* leaves the job in its executor, and when the executor has returned every
\* page has its entry in the map.
PlaceholderText(n, message) ==
  <<91, 69, 114, 114, 111, 114, 32, 112, 114, 111, 99, 101, 115, 115, 105,
    110, 103, 32, 112, 97, 103, 101, 32, 48 + n, 58, 32>> \o message \o <<93>>
IsPlaceholder(r, n) ==
  \E m \in EngineMessages :
    r = [pageNum |-> n, text |-> PlaceholderText(n, m), confidence |-> 0]
IsRecognized(r, n) ==
  /\ r.pageNum = n
  /\ r.text = validateHebrewText(RawTextOfPage(n))
  /\ r.confidence \in Confidences
C7_FailureBecomesPlaceholder ==
  job.executor \in PdfExecutors =>
    /\ \A p \in DOMAIN unitPc :
         Settled(p) => /\ IsRecognized(unitResult[p], p) \/ IsPlaceholder(unitResult[p], p)
                       /\ pc = "exec"
                       /\ error = <<>>
    /\ Returned =>
         \A p \in 1..job.numPages :
           MapHas(results, p) /\ MapGet(results, p) = unitResult[p]
\* The executor has returned; page 2 failed after its surface was made (in
\* rendering or recognition), the pages around it were recognized.
C7_FailedPageAmongRecognized ==
  /\ job.executor \in PdfExecutors
  /\ Returned
  /\ job.numPages >= 3
  /\ unitMem[2] # 0
  /\ IsPlaceholder(unitResult[2], 2)
  /\ \A p \in 1..job.numPages : p # 2 => IsRecognized(unitResult[p], p)

\* The section of page n in a final text: "--- Page n ---", the text, a line end.
SectionText(n, text) ==
  <<45, 45, 45, 32, 80, 97, 103, 101, 32, 48 + n, 32, 45, 45, 45, 10>>
    \o text \o <<10>>
RecognizedText(n) == validateHebrewText(RawTextOfPage(n))

\* C8: a five-page job in which page 2 failed and the other pages were
\* recognized ends as Complete and without an error message, and its final
\* text is the sections of pages 1 to 5 in order, that of page 2 holding the
\* error placeholder; the published map holds all five results.
FivePageTextWithFailedPage2(message) ==
  SectionText(1, RecognizedText(1)) \o <<10>>
    \o SectionText(2, PlaceholderText(2, message)) \o <<10>>
    \o SectionText(3, RecognizedText(3)) \o <<10>>
    \o SectionText(4, RecognizedText(4)) \o <<10>>
    \o SectionText(5, RecognizedText(5))
Page2FailedOfFive ==
  /\ job.executor \in PdfExecutors
  /\ job.numPages = 5
  /\ \A p \in 1..5 : Settled(p)
  /\ IsPlaceholder(unitResult[2], 2)
  /\ \A p \in {1, 3, 4, 5} : IsRecognized(unitResult[p], p)
C8_FailedPageDoesNotFailJob ==
  [][(Page2FailedOfFive /\ pc = "exec" /\ pc' = "idle") =>
       /\ processingComplete'
       /\ error' = <<>>
       /\ \E m \in EngineMessages :
            /\ unitResult[2].text = PlaceholderText(2, m)
            /\ extractedText' = FivePageTextWithFailedPage2(m)
       /\ \A p \in 1..5 :
            MapHas(pageResults', p) /\ MapGet(pageResults', p) = unitResult[p]]_vars
\* Such a job has ended: Complete, with the five sections as its text.
C8_FivePageJobComplete ==
  /\ processingComplete
  /\ ~processing
  /\ error = <<>>
  /\ Len(pageResults) = 5
  /\ MapHas(pageResults, 2) /\ IsPlaceholder(MapGet(pageResults, 2), 2)
  /\ \E m \in EngineMessages : extractedText = FivePageTextWithFailedPage2(m)

\* C9: when the executor has returned from a run in which every page unit
\* made its surface and disposed of it, the memory estimate has the value it
\* had before the first unit started, which is the 0 processFile set it to.
C9_EstimateReturnsToStart ==
  (/\ job.executor \in PdfExecutors
   /\ Returned
   /\ \A p \in 1..job.numPages : unitMem[p] # 0 /\ IsRecognized(unitResult[p], p))
    => memoryUsage = DecZero

\* C10: the final text of a completed job is determined by the set of its
\* page results: it is their sections in ascending page order, whatever the
\* order in which the units completed and their results entered the map.
EntryOfPage(m, n) == m[CHOOSE i \in 1..Len(m) : m[i].key = n].value
RECURSIVE TextInPageOrder(_, _, _)
TextInPageOrder(m, from, to) ==
  IF from > to THEN <<>>
  ELSE SectionText(from, EntryOfPage(m, from).text)
         \o (IF from < to THEN <<10>> ELSE <<>>)
         \o TextInPageOrder(m, from + 1, to)
C10_TextIndependentOfCompletionOrder ==
  processingComplete =>
    /\ {pageResults[i].key : i \in 1..Len(pageResults)} = 1..Len(pageResults)
    /\ extractedText =
         IF fileType = "image" THEN pageResults[1].value.text
         ELSE TextInPageOrder(pageResults, 1, Len(pageResults))
\* A job is complete whose page 3 completed first and page 1 second.
C10_CompletedOutOfOrder ==
  /\ processingComplete
  /\ fileType = "pdf"
  /\ Len(pageResults) >= 3
  /\ pageResults[1].key = 3
  /\ pageResults[2].key = 1
  /\ \E i \in 1..Len(pageResults) : pageResults[i].value.confidence # 0

\* C11: once all page units of a run have settled, completedPages is the
\* number of the units, and the memory estimate is the sum of the surfaces
\* that were added minus the surfaces that were subtracted (those of the
\* recognized pages), whatever the order of the completions.
AllUnitsSettled ==
  /\ job.executor \in PdfExecutors
  /\ \A p \in 1..job.numPages : Settled(p)
C11_NoUpdateLost ==
  AllUnitsSettled =>
    /\ processingStats.completedPages = job.numPages
    /\ memoryUsage =
         DecOfInt(SumMem({p \in 1..job.numPages : unitResult[p].confidence = 0}))

\* C12: in the parallel/batch executor the step that follows the completion
\* of unit p puts the result of p in the map under the key p and publishes
\* the map as the intermediate snapshot; the snapshot holds, under their own
\* keys, the results of exactly the units that have completed.
StoresUnit(p) ==
  /\ job.executor = "parallel"
  /\ microQ # <<>>
  /\ Head(microQ) = <<"store", p>>
C12_SnapshotOfCompletedUnits ==
  [][\A p \in 1..job.numPages :
       StoresUnit(p) =>
         /\ MapHas(results', p)
         /\ MapGet(results', p) = unitResult[p]
         /\ intermediateResults' = results'
         /\ pageResults' = results'
         /\ Len(intermediateResults') = Cardinality({q \in 1..job.numPages : Settled(q)})
         /\ \A q \in 1..job.numPages :
              Settled(q) => /\ MapHas(intermediateResults', q)
                            /\ MapGet(intermediateResults', q) = unitResult[q]]_vars
\* A snapshot of two results, page 2 before page 1, was published while
\* another unit is still in work.
C12_PartialSnapshotPublished ==
  /\ job.executor = "parallel"
  /\ microQ = <<>>
  /\ Len(intermediateResults) = 2
  /\ intermediateResults[1].key = 2
  /\ intermediateResults[2].key = 1
  /\ intermediateResults = results
  /\ \E q \in 1..job.numPages : Rendering(q)

\* C13: the text finalizeResults produces is determined by the set of the
\* entries of the map it is given: it is their sections in ascending numeric
\* key order (page 2 before page 10), for every insertion order and on every
\* call.
DigitsOf(n) == IF n < 10 THEN <<48 + n>> ELSE <<48 + (n \div 10), 48 + (n % 10)>>
SectionOfKey(n, text) ==
  <<45, 45, 45, 32, 80, 97, 103, 101, 32>> \o DigitsOf(n)
    \o <<32, 45, 45, 45, 10>> \o text \o <<10>>
EntrySet(m) == {m[i] : i \in 1..Len(m)}
RECURSIVE TextOfEntries(_)
TextOfEntries(E) ==
  IF E = {} THEN <<>>
  ELSE LET e == CHOOSE x \in E : \A y \in E : x.key <= y.key
           rest == E \ {e}
       IN SectionOfKey(e.key, e.value.text)
            \o (IF rest = {} THEN <<>> ELSE <<10>>)
            \o TextOfEntries(rest)
C13_FinalizeDependsOnEntrySet ==
  processingComplete =>
    extractedText =
      IF fileType = "image" /\ Cardinality(EntrySet(pageResults)) = 1
      THEN (CHOOSE e \in EntrySet(pageResults) : TRUE).value.text
      ELSE TextOfEntries(EntrySet(pageResults))
\* finalizeResults was called on a map filled in the order 10, 2, 1.
C13_FinalizedDescendingMap ==
  /\ processingComplete
  /\ fileType = "pdf"
  /\ MapKeys(pageResults) = <<10, 2, 1>>
  /\ extractedText # <<>>

\* C14: with the mode "auto" the strategy returned is parallel for a page
\* count up to 5, batch from 6 to 15, chunked from 16 to 50 and progressive
\* from 51 on, for every file size and on every call.
StrategySelected == job.strategy # "none"
C14_AutoSelectsByPageCount ==
  (StrategySelected /\ job.processingStrategy = "auto") =>
    /\ job.numPages <= 5 => job.strategy = "parallel"
    /\ (6 <= job.numPages /\ job.numPages <= 15) => job.strategy = "batch"
    /\ (16 <= job.numPages /\ job.numPages <= 50) => job.strategy = "chunked"
    /\ 51 <= job.numPages => job.strategy = "progressive"
\* The strategy was selected automatically for a document of 51 pages.
C14_AutoSelectedFor51Pages ==
  /\ StrategySelected
  /\ job.processingStrategy = "auto"
  /\ job.numPages = 51
  /\ job.strategy = "progressive"

\* C15: with any other mode the strategy returned is the mode itself, for
\* every page count and file size.
C15_ManualModeReturnedUnchanged ==
  (StrategySelected /\ job.processingStrategy # "auto") =>
    job.strategy = job.processingStrategy
\* A mode that is no setting of the form was passed for a 51-page document.
C15_UnknownModeSelected ==
  /\ StrategySelected
  /\ job.processingStrategy = "sequential"
  /\ job.numPages = 51
  /\ job.strategy = "sequential"

\* The job awaits the loading of its engines or the opening of its document.
AwaitsLibraries == pc \in {"awaitTesseract", "awaitPdfjs", "loadLibraries"}
OpeningDocument == AwaitsLibraries \/ pc \in {"arrayBuffer", "getDocument"}

\* The failures of the opening that are thrown (loadLibraries rejects, the
\* document cannot be read or opened) end processFile in its catch block:
\* the error is reported once (one message set, one error counted),
\* processing ends, and the job has neither a final text nor the completion
\* flag.  This part of C16 holds.
ThrownOpenFailureEndsInError ==
  [][(OpeningDocument /\ pc' = "idle") =>
       /\ error' \in EngineMessages \cup {PdfjsLibUndefinedMessage}
       /\ sessionData'.errors = sessionData.errors + 1
       /\ sessionData'.successfulExtractions = sessionData.successfulExtractions
       /\ ~processing'
       /\ ~processingComplete'
       /\ extractedText' = <<>>
       /\ pageResults' = EmptyMap]_vars

\* The script of an engine could not be loaded.
EngineFailedToLoad == pc = "scriptNeverLoads"

\* The job has ended in Error: processFile has returned, an error message is
\* shown, and the job has neither the completion flag nor a final text.
JobInError ==
  /\ pc = "idle"
  /\ ~processing
  /\ error # <<>>
  /\ ~processingComplete
  /\ extractedText = <<>>

\* C16 (as stated): when the document cannot be opened or an engine fails
\* to load, the failure is reported once and the job ends in Error, without
\* a final text and without the completion flag; in particular a job whose
\* engine failed to load ends in Error.
C16_OpenFailureEndsInError ==
  /\ ThrownOpenFailureEndsInError
  /\ EngineFailedToLoad ~> JobInError

\* C17: when processFile has started and awaits its libraries, the state kept
\* per document is that of a new job: no results, no intermediate results, no
\* final text, stats of zero, a memory estimate of zero, no error and no
\* completion flag.
C17_StateResetAtJobStart ==
  AwaitsLibraries =>
    /\ pageResults = EmptyMap
    /\ intermediateResults = EmptyMap
    /\ extractedText = <<>>
    /\ processingStats = NoStats
    /\ memoryUsage = DecZero
    /\ error = <<>>
    /\ ~processingComplete


\* ------------------------------------------------------------------- C18
\* A step of validateAndSetFile for a file that is neither a PDF nor an
\* accepted image.
InvalidSelection ==
  \E selectedFile \in SelectableMimes :
    ~IsPdfOrImage(selectedFile) /\ validateAndSetFile(selectedFile)

\* C18 (as stated): selecting a file that is neither a PDF nor an accepted
\* image changes no stored state: the selected file, the file type, the
\* results, the final text, the completion flag and the error message all
\* keep their values.
C18_RejectionChangesNothing ==
  [][InvalidSelection =>
       UNCHANGED <<file, fileType, pageResults, intermediateResults,
                   extractedText, processingComplete, error>>]_vars

\* C18 (amended): selecting a file that is neither a PDF nor an accepted
\* image starts no processing and keeps the selected file, the file type,
\* the results, the final text and the completion flag; the only state it
\* writes is the error message, which becomes the invalid-file message.
C18_RejectionOnlySetsError ==
  [][InvalidSelection =>
       /\ error' = InvalidFileMessage
       /\ UNCHANGED <<file, fileType, pageResults, intermediateResults,
                      extractedText, processingComplete, processing,
                      progress, memoryUsage, processingStats, sessionData,
                      pc, job, execVars, microQ, cleanupTimers>>]_vars

\* An invalid file was selected after a finished job: the message is shown
\* next to the kept file, results and final text.
C18_RejectedAfterCompleteJob ==
  /\ error = InvalidFileMessage
  /\ file \in {PdfMime, "image/png"}
  /\ processingComplete
  /\ extractedText # <<>>
  /\ pageResults # EmptyMap


\* ------------------------------------------------------------------- C19
Unsettled(p) == unitPc[p] # "settled"

\* The step in which processFile aggregates: finalizeResults(results) on the
\* map the executor returned.
Aggregates ==
  /\ microQ # <<>>
  /\ Head(microQ) = <<"afterExec", 0>>
  /\ extractedText' = FinalText(results, job.fileType)
  /\ pageResults' = results

\* C19: the completion flag is never set while a unit of the running job has
\* not settled, and it becomes set only in the step that aggregates, which is
\* taken when every unit of the job has settled and has its entry in the map.
C19_CompleteOnlyAfterAllSettled ==
  /\ [](processingComplete => \A p \in DOMAIN unitPc : ~Unsettled(p))
  /\ [][(~processingComplete /\ processingComplete') =>
          /\ Aggregates
          /\ job.numPages >= 1
          /\ DOMAIN unitPc = 1..job.numPages
          /\ \A p \in 1..job.numPages : ~Unsettled(p) /\ MapHas(results, p)
          /\ Len(results) = job.numPages]_vars

\* A job of more pages than one chunk or one round of slots has completed.
C19_MultiPageJobComplete ==
  /\ processingComplete
  /\ pc = "idle"
  /\ progress = FracOfInt(100)
  /\ Len(pageResults) > ProgressiveChunkSize
  /\ extractedText = FinalText(pageResults, "pdf")


\* ------------------------------------------------------------------- C20
\* The text the engine's output for the image is validated to: the Hebrew
\* letters and the space between them, without the asterisk.
ValidatedImageText == <<1488, 1489, 32, 1490, 1491>>

ImagePlaceholderText(message) ==
  <<91, 69, 114, 114, 111, 114, 32, 112, 114, 111, 99, 101, 115, 115, 105,
    110, 103, 32, 105, 109, 97, 103, 101, 58, 32>> \o message \o <<93>>

\* When the job of a single image aggregates, the result map has exactly
\* one entry, under key 1, and the final text is exactly that entry's text,
\* without a page banner: the validated text when the image was recognized.
\* This part of C20 holds.
AggregatedImageTextWithoutBanner ==
  [][(job.fileType = "image" /\ Aggregates) =>
       /\ Len(results) = 1
       /\ results[1].key = 1
       /\ pageResults' = results
       /\ extractedText' = results[1].value.text
       /\ \/ /\ results[1].value.confidence # 0
             /\ extractedText' = ValidatedImageText
          \/ /\ results[1].value.confidence = 0
             /\ \E message \in EngineMessages \cup {UndefinedMessage} :
                  extractedText' = ImagePlaceholderText(message)]_vars

\* The step that ends a job whose document was opened: processFile leaves
\* the await of its executor.
ExecutorJobEnds == pc = "exec" /\ pc' = "idle"

\* C20 (as stated): the job of a single image ends with a result map of
\* exactly one entry and with a final text that is exactly that entry's
\* text, the validated text when the image was recognized.
C20_ImageTextWithoutBanner ==
  [][(job.fileType = "image" /\ ExecutorJobEnds) =>
       /\ Len(pageResults') = 1
       /\ pageResults'[1].key = 1
       /\ extractedText' = pageResults'[1].value.text
       /\ pageResults'[1].value.confidence # 0 =>
            extractedText' = ValidatedImageText]_vars


\* ------------------------------------------------------------------- C21
\* "--- Page n ---"
BannerOfPage(n) == <<45, 45, 45, 32, 80, 97, 103, 101, 32, 48 + n, 32, 45, 45, 45>>

\* The positions in `text` at which the banner of page n starts.
BannerPositions(text, n) ==
  {i \in 1..Len(text) :
     /\ i + 13 <= Len(text)
     /\ SubSeq(text, i, i + 13) = BannerOfPage(n)}

\* The positions at which any banner "--- Page " starts.
AnyBannerPositions(text) ==
  {i \in 1..Len(text) :
     /\ i + 8 <= Len(text)
     /\ SubSeq(text, i, i + 8) = <<45, 45, 45, 32, 80, 97, 103, 101, 32>>}

\* The text holds exactly three banners, those of the pages 1, 2, 3, in
\* that order.
ThreeBannersInOrder(text) ==
  /\ Cardinality(AnyBannerPositions(text)) = 3
  /\ LET b1 == BannerPositions(text, 1)
         b2 == BannerPositions(text, 2)
         b3 == BannerPositions(text, 3)
     IN /\ Cardinality(b1) = 1
        /\ Cardinality(b2) = 1
        /\ Cardinality(b3) = 1
        /\ \A i \in b1, j \in b2 : i < j
        /\ \A i \in b2, j \in b3 : i < j

\* A 3-page PDF under the strategy setting "auto" runs under the tag
\* "parallel" (processParallel with bound 3); when it aggregates, the map has
\* exactly the entries 1, 2, 3 and the final text holds exactly three
\* banners, "--- Page 1 ---", "--- Page 2 ---", "--- Page 3 ---", in that
\* order, each followed by the text of its page.  This part of C21 holds.
AggregatedThreePagesAutoIsParallel ==
  [][(job.fileType = "pdf" /\ job.processingStrategy = "auto"
        /\ job.numPages = 3 /\ Aggregates) =>
       /\ job.strategy = "parallel"
       /\ job.executor = "parallel"
       /\ job.maxConcurrency = 3
       /\ Len(results) = 3
       /\ {results[i].key : i \in 1..3} = {1, 2, 3}
       /\ extractedText' = TextInPageOrder(results, 1, 3)
       /\ ThreeBannersInOrder(extractedText')]_vars

\* C21 (as stated): the job of a 3-page PDF under the strategy setting
\* "auto" runs under the tag "parallel" and ends with a result map of
\* exactly the entries 1, 2, 3 and a final text that holds exactly the three
\* banners "--- Page 1 ---", "--- Page 2 ---", "--- Page 3 ---" in that order.
C21_ThreePagesAutoIsParallel ==
  [][(/\ job.fileType = "pdf"
      /\ job.processingStrategy = "auto"
      /\ processingStats.totalPages = 3
      /\ ExecutorJobEnds) =>
       /\ job.strategy = "parallel"
       /\ Len(pageResults') = 3
       /\ {pageResults'[i].key : i \in 1..3} = {1, 2, 3}
       /\ ThreeBannersInOrder(extractedText')]_vars


\* ------------------------------------------------------------------- C22
SplitInTwo ==
  /\ ProcessWithColumnDetectionReturned
  /\ Len(call.result.columns) = 2

\* The column of the result whose bounds lie further to the right, and the
\* other one.
RightHandColumn ==
  IF call.result.columns[1].bounds.x > call.result.columns[2].bounds.x
  THEN call.result.columns[1] ELSE call.result.columns[2]
LeftHandColumn ==
  IF call.result.columns[1].bounds.x > call.result.columns[2].bounds.x
  THEN call.result.columns[2] ELSE call.result.columns[1]

\* C22: the text of a page split in two, at a detected gap or by the forced
\* 50/50 split, holds the text of the right-hand column (the bounds with the
\* larger x) before the text of the left-hand column.
C22_RightHandColumnFirst ==
  SplitInTwo =>
    call.result.fullText =
      RightLabel \o RightHandColumn.text \o LeftLabel \o LeftHandColumn.text

\* ------------------------------------------------------------------- C23
ConfidenceBelowThreeTenths(confidence) == confidence[1] * 10 < confidence[2] * 3

\* C23: in the mode "auto" the page is processed as a single column exactly
\* when the detection reports hasColumns false or a confidence below 0.3, and
\* is split into a right and a left column in every other case.
C23_AutoFallsBackToSingleColumn ==
  (ProcessWithColumnDetectionReturned /\ call.processingMode = "auto") =>
    LET lowConfidence ==
          \/ ~call.columnDetection.hasColumns
          \/ ConfidenceBelowThreeTenths(call.columnDetection.confidence)
        columns == call.result.columns
    IN /\ lowConfidence <=> (Len(columns) = 1 /\ columns[1].type = "single")
       /\ ~lowConfidence <=>
            /\ Len(columns) = 2
            /\ columns[1].type = "right"
            /\ columns[2].type = "left"

\* A page in which a gap was detected with a confidence between 0.2 and 0.3
\* was processed in the mode "auto" as a single column.
C23_DetectedGapBelowThreshold ==
  /\ ProcessWithColumnDetectionReturned
  /\ call.processingMode = "auto"
  /\ call.columnDetection.hasColumns
  /\ ConfidenceBelowThreeTenths(call.columnDetection.confidence)
  /\ Len(call.result.columns) = 1

\* ------------------------------------------------------------------- C24
\* C24: in the mode "force_columns" the page is always split in two: when a
\* gap is detected, at the separator inside that gap and with the detected
\* confidence; otherwise into the halves [0, width/2) and [width/2, ..) of
\* equal width (width/2 rounded down) with the confidence 0.3.
C24_ForceColumnsAlwaysSplits ==
  (ProcessWithColumnDetectionReturned
     /\ call.processingMode = "force_columns") =>
    LET detection == call.columnDetection
        columns == call.result.columns
        width == call.canvas.width
    IN /\ Len(columns) = 2
       /\ IF detection.hasColumns
          THEN /\ detection.gapInfo.start <= detection.gapInfo.separator
               /\ detection.gapInfo.separator
                    < detection.gapInfo.start + detection.gapInfo.width
               /\ {columns[1].bounds, columns[2].bounds} =
                    {[x |-> 0, width |-> detection.gapInfo.separator],
                     [x |-> detection.gapInfo.separator,
                      width |-> width - detection.gapInfo.separator]}
               /\ call.result.confidence = detection.confidence
          ELSE /\ {columns[1].bounds, columns[2].bounds} =
                    {[x |-> 0, width |-> width \div 2],
                     [x |-> width \div 2, width |-> width \div 2]}
               /\ call.result.confidence = <<3, 10>>

\* A page without a detectable gap was split in the mode "force_columns".
C24_ForcedHalves ==
  /\ ProcessWithColumnDetectionReturned
  /\ call.processingMode = "force_columns"
  /\ ~call.columnDetection.hasColumns
  /\ Len(call.result.columns) = 2
  /\ call.result.confidence = <<3, 10>>

\* ------------------------------------------------------------------- C25
FracLess(a, b) == a[1] * b[2] < b[1] * a[2]

\* The rasters that differ from `canvas` by one more text-free column at the
\* right or at the left of its band.
WidenedByOne(canvas) ==
  {[canvas EXCEPT !.gapWidth = @ + 1] :
     side \in {s \in {"right"} : canvas.gapStart + canvas.gapWidth < canvas.width}}
  \cup {[canvas EXCEPT !.gapStart = @ - 1, !.gapWidth = @ + 1] :
          side \in {s \in {"left"} : canvas.gapStart > 0}}

DetectedTextFreeBand ==
  /\ call.fn = "detectColumns"
  /\ call.canvas.gapWidth >= 1
  /\ call.canvas.gapDark = 0

\* The band lies in the columns that detectColumns searches and has at least
\* the minimum gap width.
BandInSearchRange(canvas, sensitivity) ==
  LET p == SearchParameters(canvas.width, sensitivity)
  IN /\ p.searchStartX <= canvas.gapStart
     /\ canvas.gapStart + canvas.gapWidth <= p.searchEndX
     /\ canvas.gapWidth >= p.minGapWidth

\* C25 (as stated): each step that widens a text-free band by one column
\* strictly increases the reported confidence, unless the confidence is
\* already 1.0.
C25_EveryWideningStepIncreases ==
  DetectedTextFreeBand =>
    \A wider \in WidenedByOne(call.canvas) :
      \/ call.result.confidence = <<1, 1>>
      \/ FracLess(call.result.confidence,
                  detectColumns(wider, call.sensitivity).confidence)

\* C25 (amended): widening a text-free band by one column never lowers the
\* reported confidence and leaves a confidence of 1.0 at 1.0; when the band
\* and the widened band lie within the searched columns and the band has at
\* least the minimum gap width, the step strictly increases a confidence
\* that is below 1.0, and the confidence is below 1.0 exactly while the band
\* is narrower than five times the minimum gap width.
C25_WideningInSearchRangeIncreases ==
  DetectedTextFreeBand =>
    \A wider \in WidenedByOne(call.canvas) :
      LET before == call.result.confidence
          after == detectColumns(wider, call.sensitivity).confidence
          p == SearchParameters(call.canvas.width, call.sensitivity)
      IN /\ FracLessEq(before, after)
         /\ before = <<1, 1>> => after = <<1, 1>>
         /\ (BandInSearchRange(call.canvas, call.sensitivity)
               /\ BandInSearchRange(wider, call.sensitivity)) =>
              /\ before = <<1, 1>> <=> call.canvas.gapWidth >= 5 * p.minGapWidth
              /\ before # <<1, 1>> => FracLess(before, after)

\* A band in the searched columns was detected with a confidence below 1.0
\* and can still be widened within them.
C25_UnsaturatedBandInSearchRange ==
  /\ DetectedTextFreeBand
  /\ call.result.hasColumns
  /\ call.result.confidence # <<1, 1>>
  /\ \E wider \in WidenedByOne(call.canvas) :
       BandInSearchRange(wider, call.sensitivity)
  /\ BandInSearchRange(call.canvas, call.sensitivity)

\* ------------------------------------------------------------------- C26
\* detectColumns was called on a raster whose only blank band spans the
\* columns from 45% to 50% of the width.
BandFrom45To50Percent ==
  /\ call.fn = "detectColumns"
  /\ call.canvas.gapDark = 0
  /\ call.canvas.gapStart * 100 = call.canvas.width * 45
  /\ call.canvas.gapWidth * 100 = call.canvas.width * 5

\* hasColumns true, confidence 1.0, separator within one pixel column of
\* 47.5% of the width.
ReportsBandWithFullConfidence ==
  /\ call.result.hasColumns
  /\ call.result.confidence = <<1, 1>>
  /\ call.result.gapInfo.separator * 1000 - call.canvas.width * 475 <= 1000
  /\ call.canvas.width * 475 - call.result.gapInfo.separator * 1000 <= 1000
  /\ call.result.rightColumn.width = call.result.gapInfo.separator
  /\ call.result.leftColumn.x = call.result.gapInfo.separator

\* C26 (as stated): on such a raster the detection reports hasColumns true,
\* confidence 1.0 and a separator at about 47.5% of the width.
C26_FivePercentBandDetected ==
  BandFrom45To50Percent => ReportsBandWithFullConfidence

\* minGapWidth of the preset: 0.5%, 1.5% or 5% of the width, rounded down.
MinGapWidthOf(width, sensitivity) ==
  IF sensitivity = "high" THEN (width * 5) \div 1000
  ELSE IF sensitivity = "low" THEN (width * 50) \div 1000
  ELSE (width * 15) \div 1000

\* C26 (amended): it does so whenever the band is at least five times the
\* minimum gap width of the sensitivity preset, for every preset and width.
C26_BandOfFiveMinimaDetected ==
  (/\ BandFrom45To50Percent
   /\ call.canvas.gapWidth >=
        5 * MinGapWidthOf(call.canvas.width, call.sensitivity)) =>
    ReportsBandWithFullConfidence

\* The band of a raster 200 columns wide was detected with the sensitivity
\* "high": ten columns, ten times the minimum gap width.
C26_BandOfTenColumnsAtHigh ==
  /\ BandFrom45To50Percent
  /\ call.sensitivity = "high"
  /\ call.canvas.width = 200
  /\ call.result.gapInfo = [start |-> 90, width |-> 10, separator |-> 95]

\* ------------------------------------------------------------------- C27
\* C27: whenever a gap is detected, the confidence is
\* min(gapWidth / minGapWidth, 5) / 5: gapWidth / (5 * minGapWidth) below the
\* saturation and 1 from gapWidth = 5 * minGapWidth on (and for a minimum of
\* 0, where the quotient is infinite); it is above 0 and at most 1, for every
\* raster width and preset.
C27_ConfidenceFormula ==
  (call.fn = "detectColumns" /\ call.result.hasColumns) =>
    LET gapWidth == call.result.gapInfo.width
        minGapWidth == MinGapWidthOf(call.canvas.width, call.sensitivity)
        confidence == call.result.confidence
    IN /\ gapWidth >= 1
       /\ gapWidth >= minGapWidth
       /\ confidence[1] > 0 /\ confidence[2] > 0
       /\ confidence[1] <= confidence[2]
       /\ confidence = <<1, 1>> <=> gapWidth >= 5 * minGapWidth
       /\ gapWidth < 5 * minGapWidth =>
            confidence[1] * 5 * minGapWidth = gapWidth * confidence[2]

\* A gap of 9 columns was detected where the minimum is 3: confidence 3/5.
C27_GapOfThreeTimesTheMinimum ==
  /\ call.fn = "detectColumns"
  /\ call.result.hasColumns
  /\ call.sensitivity = "medium"
  /\ call.canvas.width = 200
  /\ call.result.gapInfo.width = 9
  /\ call.result.confidence = <<3, 5>>

\* ------------------------------------------------------------------- C28
\* C28: validating a validated text gives the same text.
C28_ValidationIdempotent ==
  call.fn = "validateHebrewText" =>
    validateHebrewText(call.result) = call.result

\* A two-line text was validated and validation stripped a character of it.
C28_ValidatedTextChanged ==
  /\ call.fn = "validateHebrewText"
  /\ call.text = <<1488, 120, NL, 1488>>
  /\ call.result = <<1488, NL, 1488>>

\* ------------------------------------------------------------------- C29
\* The words of a text: its maximal runs of characters that are not white
\* space, in order.
WordStarts(text) ==
  {i \in 1..Len(text) :
     text[i] \notin WhiteSpace /\ (i = 1 \/ text[i - 1] \in WhiteSpace)}
WordFrom(text, i) ==
  LET last == CHOOSE j \in i..Len(text) :
                /\ \A k \in i..j : text[k] \notin WhiteSpace
                /\ (j = Len(text) \/ text[j + 1] \in WhiteSpace)
  IN SubSeq(text, i, last)
RECURSIVE WordsFrom(_, _)
WordsFrom(text, starts) ==
  IF starts = {} THEN <<>>
  ELSE LET i == CHOOSE k \in starts : \A l \in starts : k <= l
       IN <<WordFrom(text, i)>> \o WordsFrom(text, starts \ {i})
WordsOf(text) == WordsFrom(text, WordStarts(text))

\* A word without the characters validation does not allow: everything but
\* the letters U+05D0-U+05EA, the points U+05B0-U+05BD and U+05BF-U+05C7, the
\* Hebrew punctuation marks and . , ; : ! ? ( ) " ' -
AllowedCharacter(c) ==
  \/ c \in 1488..1514
  \/ c \in (1456..1469) \cup (1471..1479)
  \/ c \in {1470, 1472, 1475, 1478, 1523, 1524}
  \/ c \in {46, 44, 59, 58, 33, 63, 40, 41, 34, 39, 45}
Stripped(word) == SelectSeq(word, AllowedCharacter)
RECURSIVE StrippedEach(_)
StrippedEach(words) ==
  IF words = <<>> THEN <<>>
  ELSE <<Stripped(Head(words))>> \o StrippedEach(Tail(words))

InHebrewBlock(word) == \E i \in 1..Len(word) : word[i] \in 1424..1535
WithHebrewLetter(word) == \E i \in 1..Len(word) : word[i] \in 1488..1514

\* C29 as stated: the words of the validated text are the words of the text
\* that hold a character in U+0590-U+05FF, stripped, in order; the words
\* that hold none are dropped.
C29_WordsInHebrewBlockRetained ==
  call.fn = "validateHebrewText" =>
    WordsOf(call.result) = StrippedEach(SelectSeq(WordsOf(call.text), InHebrewBlock))

\* C29, amended: the words of the validated text are the words of the text
\* that hold a letter in U+05D0-U+05EA, stripped, in order; every other word
\* is dropped, the words without a character of the Hebrew block among them.
C29_WordsWithHebrewLetterRetained ==
  call.fn = "validateHebrewText" =>
    /\ WordsOf(call.result)
         = StrippedEach(SelectSeq(WordsOf(call.text), WithHebrewLetter))
    /\ \A i \in 1..Len(WordsOf(call.text)) :
         ~InHebrewBlock(WordsOf(call.text)[i]) =>
           \A j \in 1..Len(WordsOf(call.result)) :
             WordsOf(call.result)[j] # Stripped(WordsOf(call.text)[i])

\* A text of two words was validated: a lone vowel point, which is dropped
\* although it is in the Hebrew block, and a letter with a cantillation
\* mark, which is retained without the mark.
C29_OneWordOfTwoRetained ==
  /\ call.fn = "validateHebrewText"
  /\ call.text = <<1456, SP, 1488, 1425>>
  /\ call.result = <<1488>>

\* ------------------------------------------------------------------- C30
\* min(baseScale * complexityFactor, 2.5) in hundredths, for a factor given
\* in tenths; no product of 1.2, 1.5 or 2.0 and 0.8, 1.0 or 1.2 exceeds 2.5.
ClaimedBaseScale(viewport) ==
  IF viewport.width * viewport.height > 2000000 THEN 12
  ELSE IF viewport.width * viewport.height > 1000000 THEN 15 ELSE 20
ClaimedScales(viewport) ==
  {IF ClaimedBaseScale(viewport) * factor <= 250
   THEN ClaimedBaseScale(viewport) * factor ELSE 250 : factor \in {8, 10, 12}}

\* C30: a page processor renders the page at min(baseScale * complexityFactor,
\* 2.5), whatever the column mode.
C30_AdaptiveScaleInEveryColumnMode ==
  call.fn \in {"processSinglePage", "processHebrewSeferPage"} =>
    \E hundredths \in ClaimedScales(call.viewport) :
      call.scale.num * 100 = hundredths * call.scale.den

\* ------------------------------------------------------------------- C31
\* C31: the memory estimate is never negative.
C31_EstimateNeverNegative == ~DecIsNegative(memoryUsage)

\* ------------------------------------------------------------------- C32
\* C32: once all units of a job have settled, the memory estimate holds
\* nothing of the pages that failed: in a job that started from 0 and whose
\* recognized pages subtracted what they added, it is 0 again.
C32_FailedPagesContributeNothing ==
  (/\ job.executor \in PdfExecutors \cup {"image"}
   /\ \A p \in 1..job.numPages : Settled(p))
    => memoryUsage = DecZero

\* ------------------------------------------------------------------- C33
\* The job in flight was started on another file than the selected one (the
\* files of the model differ in their type; the closure of processFile holds
\* the type of the file it was started on).
JobOfPreviousFile == pc # "idle" /\ job.fileType # fileType

\* C33: while the job in flight belongs to a previous file, no step stores a
\* snapshot, a final text or the completion flag: these change only by being
\* cleared.
C33_OldJobStoresNothing ==
  [][JobOfPreviousFile =>
       /\ intermediateResults' \in {intermediateResults, EmptyMap}
       /\ pageResults' \in {pageResults, EmptyMap}
       /\ extractedText' \in {extractedText, <<>>}
       /\ (processingComplete' => processingComplete)]_vars

\* ------------------------------------------------------------------- C34
\* C34: no invocation of processFile is under way while the final memory
\* cleanup of an earlier invocation has still to run.
C34_OneInvocationAtATime == pc # "idle" => cleanupTimers = 0

\* ------------------------------------------------------------------- C35
\* The units of the job in flight that have settled.
SettledUnits == {p \in DOMAIN unitPc : Settled(p)}

\* C35: completedPages never exceeds totalPages; while the units of a job
\* run, completedPages is the number of the units that have settled; and
\* the step that completes a job leaves completedPages = totalPages, the
\* number of pages of the job.
C35_EveryPageCountedOnce ==
  /\ [](processingStats.completedPages <= processingStats.totalPages)
  /\ [](execPc # "none" =>
          /\ processingStats.totalPages = job.numPages
          /\ processingStats.completedPages = Cardinality(SettledUnits))
  /\ [][(processingComplete' /\ pc = "exec") =>
          /\ processingStats'.completedPages = processingStats'.totalPages
          /\ processingStats'.totalPages = job.numPages]_vars

\* A job of three pages or more is complete in which a page failed and
\* another was recognized.
C35_JobCompleteWithFailedPage ==
  /\ processingComplete
  /\ pc = "idle"
  /\ processingStats.totalPages >= 3
  /\ processingStats.completedPages = processingStats.totalPages
  /\ Len(pageResults) = processingStats.totalPages
  /\ \E i, j \in 1..Len(pageResults) :
       pageResults[i].value.confidence = 0 /\ pageResults[j].value.confidence # 0

\* ------------------------------------------------------------------- C36
\* C36: the progress is between 0 and 100, and no step of a job lowers it.
C36_ProgressNeverDecreases ==
  /\ [](FracLessEq(FracOfInt(0), progress) /\ FracLessEq(progress, FracOfInt(100)))
  /\ [][pc # "idle" => FracLessEq(progress, progress')]_vars

\* ------------------------------------------------------------------- C37
\* C37: the estimated time remaining is never negative, and the step that
\* counts a settled unit publishes the average page time multiplied by the
\* pages of the job that are left after it.
C37_EstimateFromCurrentJob ==
  /\ [](processingStats.estimatedTimeRemaining >= 0)
  /\ [][processingStats'.completedPages = processingStats.completedPages + 1 =>
          processingStats'.estimatedTimeRemaining =
            processingStats'.averageTimePerPage
              * (processingStats'.totalPages - processingStats'.completedPages)]_vars

\* ------------------------------------------------------------------- C38
\* The step ends a job.
JobEnds == pc # "idle" /\ pc' = "idle"
\* The step reports the job Complete: the completion flag is set, the
\* extraction is counted, no error is reported.
EndsComplete ==
  /\ processingComplete'
  /\ sessionData'.successfulExtractions = sessionData.successfulExtractions + 1
  /\ sessionData'.errors = sessionData.errors
  /\ error' = error
\* The step reports the job in Error: the message is set and counted, the
\* job is not complete.
EndsError ==
  /\ error' # <<>>
  /\ sessionData'.errors = sessionData.errors + 1
  /\ sessionData'.successfulExtractions = sessionData.successfulExtractions
  /\ ~processingComplete'

\* C38: a job that was started ends, in every run in which the calls of the
\* engine return; the step that ends it reports either Complete or Error and
\* not both, and leaves the processing flag false.
C38_JobEndsCompleteOrError ==
  /\ [][JobEnds => (~processing' /\ (EndsComplete # EndsError))]_vars
  /\ (pc # "idle") ~> (pc = "idle" /\ ~processing)

\* A job has ended in Error whose document was opened, after an earlier job
\* had ended Complete.
C38_OneJobCompleteOneInError ==
  /\ pc = "idle"
  /\ ~processing
  /\ ~processingComplete
  /\ error = TypeErrorMessage("pdf")
  /\ progress = FracOfInt(5)
  /\ sessionData.successfulExtractions = 1
  /\ sessionData.errors = 1

\* ------------------------------------------------------------------- C39
\* The x at which a page split in two is divided: the separator of the
\* detected gap, or half the width in the forced split.
SeparatorOfSplit ==
  IF call.columnDetection.hasColumns
  THEN call.columnDetection.gapInfo.separator
  ELSE call.canvas.width \div 2
ColumnTagged(type) ==
  call.result.columns[CHOOSE i \in 1..2 : call.result.columns[i].type = type]

\* C39: in a two-column result the entry tagged "right" has its bounds at or
\* to the right of the separator, the entry tagged "left" has its bounds to
\* the left of it, and the text of each entry is the validated text the
\* engine recognized from the entry's own bounds.
C39_TagsMatchBounds ==
  SplitInTwo =>
    /\ {call.result.columns[i].type : i \in 1..2} = {"right", "left"}
    /\ ColumnTagged("right").bounds.x >= SeparatorOfSplit
    /\ ColumnTagged("left").bounds.x + ColumnTagged("left").bounds.width
         <= SeparatorOfSplit
    /\ \A i \in 1..2 :
         call.result.columns[i].text =
           validateHebrewText(
             RecognizeRegion(call.canvas,
               extractColumnImage(call.canvas, call.result.columns[i].bounds)))

====
